---- MODULE Spec2Model ----
(***************************************************************************)
(* Verification model of the MeetXaccel scheduling backend: the two        *)
(* availability engines (apps/availability/utils.py, the functional one,   *)
(* and apps/events/utils.py, the class AvailabilityCalculator) and the     *)
(* booking-creation path that re-validates a slot before it writes.        *)
(*                                                                         *)
(* Time is in seconds since 00:00 UTC of date 0; date 0 is a Monday        *)
(* (Python weekday 0).  A time of day is in seconds since local midnight.  *)
(***************************************************************************)
EXTENDS Integers, Sequences, FiniteSets, TLC

VARIABLES
    cfg,        \* organizer data: rules, overrides, blocks, buffer settings, timezone
    etype,      \* the EventType the requests are about
    bookings,   \* the Booking table (with the confirmed-attendee count of each row)
    now,        \* timezone.now()
    req,        \* the availability request being issued: dates and attendee count
    cacheA,     \* Django cache entries written by calculate_available_slots
    cacheB,     \* EventTypeAvailabilityCache rows
    res,        \* the last response of an availability request
    pc,         \* position of each concurrent caller (of create_booking_with_validation
                \* or of get_available_slots)
    call,       \* arguments and locals of each concurrent caller
    audit,      \* BookingAuditLog: number of rows
    arg,        \* arguments of the library function being exercised on its own
    ret         \* ... and what it returned

vars == <<cfg, etype, bookings, now, req, cacheA, cacheB, res, pc, call, audit, arg, ret>>

-----------------------------------------------------------------------------
(* Time arithmetic                                                         *)

Minutes(m) == m * 60
Hours(h) == h * 3600
Days(d) == d * 86400
At(d, h, m) == Days(d) + Hours(h) + Minutes(m)
TimeOfDay(h, m) == Hours(h) + Minutes(m)

Max(a, b) == IF a >= b THEN a ELSE b
Min(a, b) == IF a <= b THEN a ELSE b

\* time(23, 59, 59): the day-end sentinel of a midnight-spanning window
EndOfDaySentinel == 86399
\* timedelta(minutes=5): the adjacency tolerance of merge_overlapping_slots
MergeTolerance == 300
\* cache.set(..., timeout=900)
CacheTimeoutA == 900
\* timedelta(hours=1): expires_at of an EventTypeAvailabilityCache row
CacheTtlB == 3600
\* getattr(buffer_settings, 'slot_interval_minutes', 15)
DefaultSlotIntervalMinutes == 15

\* A zone is [std: offset from UTC in seconds, trans: the UTC instant at which
\* daylight saving time starts (one hour forward), or -1 when it never does].
utcoffset(tz, t) ==
    IF tz.trans >= 0 /\ t >= tz.trans THEN tz.std + 3600 ELSE tz.std
dst(tz, t) ==
    IF tz.trans >= 0 /\ t >= tz.trans THEN 3600 ELSE 0
\* datetime.combine(date, tod).replace(tzinfo=tz).astimezone(utc): the offset is
\* chosen from the wall time (fold=0: a wall time inside the gap keeps the
\* offset from before the transition).
combine_utc(tz, date, tod) ==
    LET wall == Days(date) + tod
    IN  IF tz.trans >= 0 /\ wall >= tz.trans + tz.std + 3600
        THEN wall - (tz.std + 3600)
        ELSE wall - tz.std
\* t.astimezone(tz).date()
local_date(tz, t) == (t + utcoffset(tz, t)) \div 86400
\* t.date() of a UTC datetime, and the __date lookups of the ORM (TIME_ZONE UTC)
utc_date(t) == t \div 86400
\* date.weekday(): 0 = Monday
weekday(date) == date % 7

-----------------------------------------------------------------------------
(* Model entities (apps/events/models.py and apps/availability/models.py)  *)

\* The second event type of the organizer: its bookings carry its own buffers.
OtherEventType ==
    [id |-> 2, duration |-> 30, buffer_time_before |-> 15, buffer_time_after |-> 15,
     min_scheduling_notice |-> 0, max_scheduling_horizon |-> 10080,
     max_bookings_per_day |-> 0, max_attendees |-> 1, slot_interval_minutes |-> 30]

\* booking.event_type
event_type_of(b) == IF b.event_type = etype.id THEN etype ELSE OtherEventType

\* EventType.is_group_event()
is_group_event(et) == et.max_attendees > 1

\* EventType.can_book_on_date(date): the event types here are active and carry
\* no booking date range
can_book_on_date(et, date) == TRUE

\* AvailabilityRule / DateOverrideRule / RecurringBlockedTime .spans_midnight()
spans_midnight(r) == r.end_time < r.start_time

\* AvailabilityRule.applies_to_event_type(event_type): the rules here are unscoped
applies_to_event_type(rule, et) == TRUE

\* RecurringBlockedTime.applies_to_date(date)
applies_to_date(rb, date) ==
    /\ rb.day_of_week = weekday(date)
    /\ (rb.start_date < 0 \/ date >= rb.start_date)
    /\ (rb.end_date < 0 \/ date <= rb.end_date)

\* booking.attendees.filter(status='confirmed').count()
confirmed_attendees(b) == b.attendees

Confirmed(bs) == {b \in bs : b.status = "confirmed"}

-----------------------------------------------------------------------------
(* Sequences of slots                                                      *)

Slot(s, e, et, spots) ==
    [start_time |-> s, end_time |-> e, duration_minutes |-> et.duration,
     available_spots |-> spots]

RECURSIVE InsertByStart(_, _)
InsertByStart(sorted, x) ==
    IF sorted = <<>> THEN <<x>>
    ELSE IF x.start_time < Head(sorted).start_time THEN <<x>> \o sorted
    ELSE <<Head(sorted)>> \o InsertByStart(Tail(sorted), x)

\* sorted(slots, key=lambda x: x['start_time']) and list.sort: stable
RECURSIVE SortByStart(_)
SortByStart(slots) ==
    IF slots = <<>> THEN <<>>
    ELSE InsertByStart(SortByStart(SubSeq(slots, 1, Len(slots) - 1)), slots[Len(slots)])

Range(seq) == {seq[i] : i \in 1..Len(seq)}

RECURSIVE Flatten(_)
Flatten(seqs) == IF seqs = <<>> THEN <<>> ELSE Head(seqs) \o Flatten(Tail(seqs))

\* the elements of a finite set of records in a fixed order (a queryset's order)
RECURSIVE SetToSeq(_)
SetToSeq(S) ==
    IF S = {} THEN <<>>
    ELSE LET x == CHOOSE y \in S : TRUE IN <<x>> \o SetToSeq(S \ {x})

-----------------------------------------------------------------------------
(* apps/availability/utils.py: the functional engine                       *)

\* The organizer's zone and the zones an invitee may name
\* The zone names ZoneInfo accepts here; any other string raises
ValidZones == {"UTC", "Europe/Berlin", "Asia/Tokyo", "America/New_York"}
ZoneInfo(name) ==
    CASE name = "UTC" -> [std |-> 0, trans |-> -1]
      [] name = "Europe/Berlin" -> [std |-> 3600, trans |-> -1]
      [] name = "Asia/Tokyo" -> [std |-> 32400, trans |-> -1]
      [] name = "America/New_York" -> [std |-> -18000, trans |-> -1]
validate_timezone(name) == name \in ValidZones

\* GoogleCalendarClient / OutlookCalendarClient .get_busy_times: the provider's
\* events, or an exception when the provider times out or answers with an error
client_get_busy_times(integration) ==
    [raised |-> integration.fails, events |-> integration.events]

\* get_external_busy_times: the events of every active integration whose fetch
\* succeeded; a fetch that raises is logged and skipped
get_external_busy_times(calendar_integrations) ==
    UNION {IF integration.provider \notin {"google", "outlook"} THEN {}
           ELSE IF client_get_busy_times(integration).raised THEN {}
           ELSE client_get_busy_times(integration).events :
               integration \in calendar_integrations}

is_slot_blocked_by_external_calendar(start_time, end_time, external_busy_times) ==
    \E busy \in external_busy_times :
        start_time < busy.end_time /\ end_time > busy.start_time

is_slot_blocked(start_time, end_time, blocked_times) ==
    \E blocked \in blocked_times :
        start_time < blocked.end_datetime /\ end_time > blocked.start_datetime

is_slot_blocked_by_recurring(start_time, end_time, recurring_blocks, organizer_tz) ==
    \E rb \in recurring_blocks :
        LET slot_date == local_date(organizer_tz, start_time)
        IN  /\ applies_to_date(rb, slot_date)
            /\ IF spans_midnight(rb)
               THEN \/ /\ start_time < combine_utc(organizer_tz, slot_date, EndOfDaySentinel)
                       /\ end_time > combine_utc(organizer_tz, slot_date, rb.start_time)
                    \/ /\ start_time < combine_utc(organizer_tz, slot_date + 1, rb.end_time)
                       /\ end_time > combine_utc(organizer_tz, slot_date + 1, 0)
               ELSE /\ start_time < combine_utc(organizer_tz, slot_date, rb.end_time)
                    /\ end_time > combine_utc(organizer_tz, slot_date, rb.start_time)

\* start_time and end_time are the candidate's BUFFERED bounds (the caller passes
\* buffered_start and buffered_end), also in the comparison with the booking's own
\* start and end.
is_slot_conflicting_with_bookings(start_time, end_time, existing_bookings, event_type, attendee_count) ==
    LET overlapping_bookings ==
            {b \in existing_bookings :
                /\ start_time < b.end_time + Minutes(event_type_of(b).buffer_time_after)
                /\ end_time > b.start_time - Minutes(event_type_of(b).buffer_time_before)}
    IN  \E b \in overlapping_bookings :
            ~ ( /\ b.event_type = event_type.id
                /\ is_group_event(event_type)
                /\ b.start_time = start_time
                /\ b.end_time = end_time
                /\ confirmed_attendees(b) + attendee_count <= event_type.max_attendees )

_exceeds_daily_booking_limit(event_type, start_time) ==
    IF event_type.max_bookings_per_day = 0 THEN FALSE
    ELSE LET booking_date == local_date(cfg.tz, start_time)
             existing_count ==
                 Cardinality({b \in Confirmed(bookings) :
                     /\ b.event_type = event_type.id
                     /\ utc_date(b.start_time) = booking_date})
         IN  existing_count >= event_type.max_bookings_per_day

_get_available_spots_for_slot(event_type, start_time, end_time, existing_bookings, requested_attendee_count) ==
    IF ~is_group_event(event_type)
    THEN (IF requested_attendee_count = 1 THEN 1 ELSE 0)
    ELSE LET same == {b \in existing_bookings :
                        /\ b.event_type = event_type.id
                        /\ b.start_time = start_time
                        /\ b.end_time = end_time
                        /\ b.status = "confirmed"}
         IN  IF same # {}
             THEN LET existing_booking == CHOOSE b \in same : \A o \in same : b.id <= o.id
                  IN  Max(0, event_type.max_attendees - confirmed_attendees(existing_booking))
             ELSE event_type.max_attendees

\* The slot interval: the event type's, else the organizer's BufferTime setting
slot_interval_of(event_type, buffer_settings) ==
    IF event_type.slot_interval_minutes > 0
    THEN Minutes(event_type.slot_interval_minutes)
    ELSE Minutes(buffer_settings.slot_interval_minutes)

\* The while loop of _generate_slots_for_time_range, from candidate start cur.
\* a holds the arguments the loop reads.
RECURSIVE _slot_loop(_, _, _)
_slot_loop(cur, range_end_utc, a) ==
    LET et == a.event_type
        slot_duration == Minutes(et.duration)
        slot_interval == slot_interval_of(et, a.buffer_settings)
        minimum_gap == Minutes(a.buffer_settings.minimum_gap)
        slot_end == cur + slot_duration
        buffered_start == cur - Minutes(et.buffer_time_before)
        buffered_end == slot_end + Minutes(et.buffer_time_after)
    IN  IF ~(cur + slot_duration <= range_end_utc) THEN <<>>
        ELSE IF is_slot_blocked(cur, slot_end, a.blocked_times)
            THEN _slot_loop(cur + slot_interval, range_end_utc, a)
        ELSE IF is_slot_blocked_by_recurring(cur, slot_end, a.recurring_blocks, a.org_tz)
            THEN _slot_loop(cur + slot_interval, range_end_utc, a)
        ELSE IF is_slot_blocked_by_external_calendar(cur, slot_end, a.external_busy_times)
            THEN _slot_loop(cur + slot_interval, range_end_utc, a)
        ELSE IF is_slot_conflicting_with_bookings(buffered_start, buffered_end,
                                                  a.existing_bookings, et, a.attendee_count)
            THEN _slot_loop(cur + slot_interval, range_end_utc, a)
        ELSE IF cur < now + Minutes(et.min_scheduling_notice)
            THEN _slot_loop(cur + slot_interval, range_end_utc, a)
        ELSE IF cur > now + Minutes(et.max_scheduling_horizon)
            THEN <<>>
        ELSE IF _exceeds_daily_booking_limit(et, cur)
            THEN _slot_loop(cur + slot_interval, range_end_utc, a)
        ELSE <<Slot(cur, slot_end, et,
                    _get_available_spots_for_slot(et, cur, slot_end, a.existing_bookings,
                                                  a.attendee_count))>>
             \o _slot_loop(cur + Max(slot_interval, minimum_gap), range_end_utc, a)

\* A pass whose continue after a blocked candidate does not move
\* current_slot_start
_slot_loop_iteration_stuck(cur, range_end_utc, a) ==
    LET et == a.event_type
        slot_duration == Minutes(et.duration)
        slot_interval == slot_interval_of(et, a.buffer_settings)
        slot_end == cur + slot_duration
    IN  IF ~(cur + slot_duration <= range_end_utc)
        THEN [running |-> FALSE, current_slot_start |-> cur, slots |-> <<>>]
        ELSE IF is_slot_blocked(cur, slot_end, a.blocked_times)
            THEN [running |-> TRUE, current_slot_start |-> cur, slots |-> <<>>]
        ELSE [running |-> TRUE, current_slot_start |-> cur + slot_interval,
              slots |-> <<>>]

\* One pass through the while loop of _generate_slots_for_time_range: the loop
\* test, then the body up to its continue, its break or its end.  running is
\* FALSE when the test fails or the body breaks.
_slot_loop_iteration(cur, range_end_utc, a) ==
    LET et == a.event_type
        slot_duration == Minutes(et.duration)
        slot_interval == slot_interval_of(et, a.buffer_settings)
        minimum_gap == Minutes(a.buffer_settings.minimum_gap)
        slot_end == cur + slot_duration
        buffered_start == cur - Minutes(et.buffer_time_before)
        buffered_end == slot_end + Minutes(et.buffer_time_after)
        continue == [running |-> TRUE, current_slot_start |-> cur + slot_interval,
                     slots |-> <<>>]
        stop == [running |-> FALSE, current_slot_start |-> cur, slots |-> <<>>]
    IN  IF ~(cur + slot_duration <= range_end_utc) THEN stop
        ELSE IF is_slot_blocked(cur, slot_end, a.blocked_times) THEN continue
        ELSE IF is_slot_blocked_by_recurring(cur, slot_end, a.recurring_blocks, a.org_tz)
            THEN continue
        ELSE IF is_slot_blocked_by_external_calendar(cur, slot_end, a.external_busy_times)
            THEN continue
        ELSE IF is_slot_conflicting_with_bookings(buffered_start, buffered_end,
                                                  a.existing_bookings, et, a.attendee_count)
            THEN continue
        ELSE IF cur < now + Minutes(et.min_scheduling_notice) THEN continue
        ELSE IF cur > now + Minutes(et.max_scheduling_horizon) THEN stop
        ELSE IF _exceeds_daily_booking_limit(et, cur) THEN continue
        ELSE [running |-> TRUE,
              current_slot_start |-> cur + Max(slot_interval, minimum_gap),
              slots |-> <<Slot(cur, slot_end, et,
                               _get_available_spots_for_slot(et, cur, slot_end,
                                                             a.existing_bookings,
                                                             a.attendee_count))>>]

_generate_slots_for_time_range(date, start_time, end_time, a) ==
    _slot_loop(combine_utc(a.org_tz, date, start_time),
               combine_utc(a.org_tz, date, end_time), a)

\* a rule or an override: both split a midnight-spanning window in two
generate_slots_for_rule(rule, date, a) ==
    IF spans_midnight(rule)
    THEN _generate_slots_for_time_range(date, rule.start_time, EndOfDaySentinel, a)
         \o _generate_slots_for_time_range(date + 1, 0, rule.end_time, a)
    ELSE _generate_slots_for_time_range(date, rule.start_time, rule.end_time, a)

generate_slots_for_override(override, date, a) ==
    IF ~override.is_available \/ ~override.has_times THEN <<>>
    ELSE IF spans_midnight(override)
    THEN _generate_slots_for_time_range(date, override.start_time, EndOfDaySentinel, a)
         \o _generate_slots_for_time_range(date + 1, 0, override.end_time, a)
    ELSE _generate_slots_for_time_range(date, override.start_time, override.end_time, a)

\* A merge loop that forgets to add the last slot
RECURSIVE _merge_fold_without_last(_, _, _)
_merge_fold_without_last(current_slot, rest, merged_slots) ==
    IF rest = <<>> THEN merged_slots
    ELSE LET next_slot == Head(rest)
         IN  IF \/ current_slot.end_time >= next_slot.start_time
                \/ current_slot.end_time + MergeTolerance >= next_slot.start_time
             THEN LET end_time == Max(current_slot.end_time, next_slot.end_time)
                  IN  _merge_fold_without_last(
                          [current_slot EXCEPT
                              !.end_time = end_time,
                              !.duration_minutes = (end_time - current_slot.start_time) \div 60,
                              !.available_spots = Min(current_slot.available_spots,
                                                      next_slot.available_spots)],
                          Tail(rest), merged_slots)
             ELSE _merge_fold_without_last(next_slot, Tail(rest),
                                           Append(merged_slots, current_slot))

RECURSIVE _merge_fold(_, _, _)
_merge_fold(current_slot, rest, merged_slots) ==
    IF rest = <<>> THEN Append(merged_slots, current_slot)
    ELSE LET next_slot == Head(rest)
         IN  IF \/ current_slot.end_time >= next_slot.start_time
                \/ current_slot.end_time + MergeTolerance >= next_slot.start_time
             THEN LET end_time == Max(current_slot.end_time, next_slot.end_time)
                  IN  _merge_fold(
                          [current_slot EXCEPT
                              !.end_time = end_time,
                              !.duration_minutes = (end_time - current_slot.start_time) \div 60,
                              !.available_spots = Min(current_slot.available_spots,
                                                      next_slot.available_spots)],
                          Tail(rest), merged_slots)
             ELSE _merge_fold(next_slot, Tail(rest), Append(merged_slots, current_slot))

merge_overlapping_slots(slots) ==
    IF slots = <<>> THEN slots
    ELSE LET sorted_slots == SortByStart(slots)
         IN  _merge_fold(Head(sorted_slots), Tail(sorted_slots), <<>>)

\* A DST pass that keeps every slot
dst_pass_keeps_all(organizer_tz, base_slots) == base_slots

\* drops the slots whose start and end have different dst() in the organizer's zone
calculate_dst_safe_time_slots(organizer_tz, base_slots) ==
    SelectSeq(base_slots,
              LAMBDA slot : dst(organizer_tz, slot.start_time) = dst(organizer_tz, slot.end_time))

\* t.astimezone(tz).hour
local_hour(tz, t) == ((t + utcoffset(tz, t)) % 86400) \div 3600

get_reasonable_hours_for_timezone(timezone_string, reasonable_start, reasonable_end) ==
    <<reasonable_start, reasonable_end>>

\* The per-zone score of calculate_slot_fairness_score
tz_score(local_hour_) ==
    IF 10 <= local_hour_ /\ local_hour_ <= 16 THEN 100
    ELSE IF 8 <= local_hour_ /\ local_hour_ <= 18 THEN 80
    ELSE IF 7 <= local_hour_ /\ local_hour_ <= 20 THEN 60
    ELSE IF 6 <= local_hour_ /\ local_hour_ <= 22 THEN 40
    ELSE 0

RECURSIVE total_score(_, _)
total_score(invitee_times, names) ==
    IF names = {} THEN 0
    ELSE LET tz_name == CHOOSE n \in names : TRUE
         IN  tz_score(invitee_times[tz_name].start_hour)
                 + total_score(invitee_times, names \ {tz_name})

\* invitee_times: the dict, a function from zone names.  The average is exact
\* for the one or two distinct zones used here (scores are multiples of 20).
calculate_slot_fairness_score(invitee_times) ==
    IF DOMAIN invitee_times = {} THEN 0
    ELSE total_score(invitee_times, DOMAIN invitee_times)
             \div Cardinality(DOMAIN invitee_times)

\* A sort that puts a slot before the earlier slots of equal score
RECURSIVE InsertBeforeTies(_, _)
InsertBeforeTies(sorted, x) ==
    IF sorted = <<>> THEN <<x>>
    ELSE IF Head(sorted).fairness_score > x.fairness_score
         THEN <<Head(sorted)>> \o InsertBeforeTies(Tail(sorted), x)
         ELSE <<x>> \o sorted

\* list.sort(key=fairness_score, reverse=True): stable, highest score first
RECURSIVE InsertByFairness(_, _)
InsertByFairness(sorted, x) ==
    IF sorted = <<>> THEN <<x>>
    ELSE IF Head(sorted).fairness_score >= x.fairness_score
         THEN <<Head(sorted)>> \o InsertByFairness(Tail(sorted), x)
         ELSE <<x>> \o sorted
RECURSIVE sort_by_fairness(_)
sort_by_fairness(slots) ==
    IF slots = <<>> THEN <<>>
    ELSE InsertByFairness(sort_by_fairness(SubSeq(slots, 1, Len(slots) - 1)),
                          slots[Len(slots)])

\* The test of one slot against one invitee zone (the body of the inner loop)
is_reasonable_for(slot, tz_name, reasonable_start_hour, reasonable_end_hour) ==
    /\ tz_name \in ValidZones
    /\ LET invitee_tz == ZoneInfo(tz_name)
           hours == get_reasonable_hours_for_timezone(tz_name, reasonable_start_hour,
                                                      reasonable_end_hour)
       IN  ~ \/ local_hour(invitee_tz, slot.start_time) < hours[1]
             \/ local_hour(invitee_tz, slot.end_time) > hours[2]
             \/ local_date(invitee_tz, slot.start_time)
                    # local_date(invitee_tz, slot.end_time)

calculate_multi_invitee_intersection(organizer_slots, invitee_timezones, reasonable_start_hour, reasonable_end_hour) ==
    IF Len(invitee_timezones) <= 1 THEN organizer_slots
    ELSE LET reasonable ==
                 SelectSeq(organizer_slots,
                           LAMBDA slot : \A i \in 1..Len(invitee_timezones) :
                               is_reasonable_for(slot, invitee_timezones[i],
                                                 reasonable_start_hour,
                                                 reasonable_end_hour))
             invitee_times(slot) ==
                 [n \in Range(invitee_timezones) |->
                     [start_hour |-> local_hour(ZoneInfo(n), slot.start_time),
                      end_hour |-> local_hour(ZoneInfo(n), slot.end_time)]]
             reasonable_slots ==
                 [i \in 1..Len(reasonable) |->
                     [start_time |-> reasonable[i].start_time,
                      end_time |-> reasonable[i].end_time,
                      duration_minutes |-> reasonable[i].duration_minutes,
                      available_spots |-> reasonable[i].available_spots,
                      fairness_score |->
                          calculate_slot_fairness_score(invitee_times(reasonable[i]))]]
         IN  sort_by_fairness(reasonable_slots)

_is_cache_dirty(start_date, end_date) ==
    \E e \in cacheB : e.date >= start_date /\ e.date <= end_date /\ e.is_dirty

\* f"availability:{organizer.id}:{event_type.id}:{start_date}:{end_date}:{invitee_timezone}:{attendee_count}"
cache_key(r) ==
    <<etype.id, r.start_date, r.end_date, r.invitee_timezone, r.attendee_count>>

\* cache.get(cache_key): the entry, unless its timeout has passed
cache_get(key) == {e \in cacheA : e.key = key /\ now < e.expires}

\* One pass of the date loop of calculate_available_slots
_slots_for_date(current_date, a) ==
    IF current_date < utc_date(now) THEN <<>>
    ELSE IF ~can_book_on_date(a.event_type, current_date) THEN <<>>
    ELSE LET on_date == {o \in cfg.date_overrides : o.date = current_date}
         IN  IF on_date # {}
             THEN LET date_override == CHOOSE o \in on_date : TRUE
                  IN  IF ~date_override.is_available THEN <<>>
                      ELSE generate_slots_for_override(date_override, current_date, a)
             ELSE LET day_rules == SetToSeq({r \in cfg.availability_rules :
                                        /\ r.day_of_week = weekday(current_date)
                                        /\ applies_to_event_type(r, a.event_type)})
                  IN  Flatten([i \in 1..Len(day_rules) |->
                                  generate_slots_for_rule(day_rules[i], current_date, a)])

\* What calculate_available_slots loads before its date loop and hands down to
\* _generate_slots_for_time_range
_querysets(r) ==
    [event_type |-> etype,
     org_tz |-> cfg.tz,
     blocked_times |->
         {b \in cfg.blocked_times :
             /\ utc_date(b.start_datetime) <= r.end_date
             /\ utc_date(b.end_datetime) >= r.start_date},
     recurring_blocks |-> cfg.recurring_blocks,
     existing_bookings |->
         {b \in Confirmed(bookings) :
             /\ utc_date(b.start_time) <= r.end_date
             /\ utc_date(b.end_time) >= r.start_date},
     external_busy_times |-> get_external_busy_times(cfg.calendar_integrations),
     buffer_settings |-> cfg.buffer_settings,
     attendee_count |-> r.attendee_count]

\* calculate_available_slots past its cache lookup: the querysets and the date
\* loop (generated: available_slots as the loop leaves it), then the merge, the
\* sort and the DST pass (slots)
_compute_slots(r) ==
    LET a == _querysets(r)
        n == IF r.end_date >= r.start_date THEN r.end_date - r.start_date + 1 ELSE 0
        available_slots == Flatten([i \in 1..n |-> _slots_for_date(r.start_date + i - 1, a)])
    IN  [generated |-> available_slots,
         slots |-> calculate_dst_safe_time_slots(cfg.tz,
                       SortByStart(merge_overlapping_slots(available_slots)))]

\* warnings = [] (line 113); an entry is appended only for an invalid member of
\* invitee_timezones (lines 119-126), which the requests leave at None
request_warnings == <<>>

\* The response of calculate_available_slots and the Django cache after it
calculate_available_slots(r) ==
    IF ~validate_timezone(r.invitee_timezone)
    THEN [response |-> [engine |-> "A", warnings |-> request_warnings, slots |-> <<>>, generated |-> <<>>,
                        cache_hit |-> FALSE, error |-> "Invalid timezone", at |-> now],
          cache |-> cacheA]
    ELSE LET cached_result == cache_get(cache_key(r))
         IN  IF cached_result # {} /\ ~_is_cache_dirty(r.start_date, r.end_date)
             THEN [response |-> [engine |-> "A", warnings |-> request_warnings,
                                 slots |-> (CHOOSE e \in cached_result : TRUE).slots,
                                 generated |-> <<>>,
                                 cache_hit |-> TRUE, error |-> "", at |-> now],
                   cache |-> cacheA]
             ELSE LET computed == _compute_slots(r)
                      available_slots == computed.slots
                  IN  [response |-> [engine |-> "A", warnings |-> request_warnings, slots |-> available_slots,
                                     generated |-> computed.generated,
                                     cache_hit |-> FALSE, error |-> "", at |-> now],
                       cache |->
                           IF r.start_date = r.end_date /\ Len(available_slots) > 0
                           THEN {e \in cacheA : e.key # cache_key(r)}
                                \cup {[key |-> cache_key(r), slots |-> available_slots,
                                       expires |-> now + CacheTimeoutA]}
                           ELSE cacheA]

-----------------------------------------------------------------------------
(* apps/events/utils.py: class AvailabilityCalculator                      *)

AC__is_blocked_by_blocked_times(start_time, end_time) ==
    \E b \in cfg.blocked_times :
        b.start_datetime < end_time /\ b.end_datetime > start_time

AC__is_blocked_by_recurring_blocks(start_time, end_time) ==
    LET org_tz == cfg.tz
        local_date_ == local_date(org_tz, start_time)
        recurring_blocks == {rb \in cfg.recurring_blocks :
                                rb.day_of_week = weekday(local_date_)}
    IN  \E block \in recurring_blocks :
            /\ applies_to_date(block, local_date_)
            /\ IF spans_midnight(block)
               THEN \/ /\ start_time < combine_utc(org_tz, local_date_, EndOfDaySentinel)
                       /\ end_time > combine_utc(org_tz, local_date_, block.start_time)
                    \/ /\ start_time < combine_utc(org_tz, local_date_ + 1, block.end_time)
                       /\ end_time > combine_utc(org_tz, local_date_ + 1, 0)
               ELSE /\ start_time < combine_utc(org_tz, local_date_, block.end_time)
                    /\ end_time > combine_utc(org_tz, local_date_, block.start_time)

\* start_time and end_time are the candidate's buffered bounds; et is
\* self.event_type.  The capacity exemption does not compare start and end.
AC__is_blocked_by_existing_bookings(et, start_time, end_time, attendee_count) ==
    LET existing_bookings == {b \in Confirmed(bookings) :
                                 b.start_time < end_time /\ b.end_time > start_time}
    IN  \E b \in existing_bookings :
            /\ start_time < b.end_time + Minutes(event_type_of(b).buffer_time_after)
            /\ end_time > b.start_time - Minutes(event_type_of(b).buffer_time_before)
            /\ ~ ( /\ is_group_event(event_type_of(b))
                   /\ b.event_type = et.id
                   /\ confirmed_attendees(b) + attendee_count <= et.max_attendees )

\* "from apps.integrations.utils import get_external_busy_times" names a function
\* that module does not define: the import raises, the outer except returns False.
AC__is_blocked_by_external_calendars(start_time, end_time) == FALSE

AC__exceeds_daily_booking_limit(et, start_time) ==
    IF et.max_bookings_per_day = 0 THEN FALSE
    ELSE LET booking_date == local_date(cfg.tz, start_time)
             existing_count ==
                 Cardinality({b \in Confirmed(bookings) :
                     /\ b.event_type = et.id
                     /\ utc_date(b.start_time) = booking_date})
         IN  existing_count >= et.max_bookings_per_day

AC__is_slot_available(et, start_time, end_time, attendee_count, buffer_before, buffer_after) ==
    LET buffered_start == start_time - buffer_before
        buffered_end == end_time + buffer_after
    IN  IF start_time < now + Minutes(et.min_scheduling_notice) THEN FALSE
        ELSE IF start_time > now + Minutes(et.max_scheduling_horizon) THEN FALSE
        ELSE IF AC__is_blocked_by_blocked_times(buffered_start, buffered_end) THEN FALSE
        ELSE IF AC__is_blocked_by_recurring_blocks(buffered_start, buffered_end) THEN FALSE
        ELSE IF AC__is_blocked_by_existing_bookings(et, buffered_start, buffered_end,
                                                    attendee_count) THEN FALSE
        ELSE IF AC__is_blocked_by_external_calendars(buffered_start, buffered_end) THEN FALSE
        ELSE IF AC__exceeds_daily_booking_limit(et, start_time) THEN FALSE
        ELSE TRUE

AC__get_available_spots(et, start_time, end_time) ==
    IF ~is_group_event(et) THEN 1
    ELSE LET same == {b \in Confirmed(bookings) :
                        /\ b.event_type = et.id
                        /\ b.start_time = start_time
                        /\ b.end_time = end_time}
         IN  IF same # {}
             THEN LET existing_booking == CHOOSE b \in same : \A o \in same : b.id <= o.id
                  IN  Max(0, et.max_attendees - confirmed_attendees(existing_booking))
             ELSE et.max_attendees

AC__get_slot_interval(et) ==
    IF et.slot_interval_minutes > 0 THEN Minutes(et.slot_interval_minutes)
    ELSE Minutes(cfg.buffer_settings.slot_interval_minutes)

RECURSIVE AC__slot_loop(_, _, _, _)
AC__slot_loop(cur, range_end_utc, et, attendee_count) ==
    LET slot_duration == Minutes(et.duration)
        slot_end == cur + slot_duration
    IN  IF ~(cur + slot_duration <= range_end_utc) THEN <<>>
        ELSE (IF AC__is_slot_available(et, cur, slot_end, attendee_count,
                                       Minutes(et.buffer_time_before),
                                       Minutes(et.buffer_time_after))
              THEN <<Slot(cur, slot_end, et, AC__get_available_spots(et, cur, slot_end))>>
              ELSE <<>>)
             \o AC__slot_loop(cur + AC__get_slot_interval(et), range_end_utc, et, attendee_count)

\* One pass through the while loop of
\* AvailabilityCalculator._generate_slots_for_time_range
AC__slot_loop_iteration(cur, range_end_utc, et, attendee_count) ==
    LET slot_duration == Minutes(et.duration)
        slot_end == cur + slot_duration
    IN  IF ~(cur + slot_duration <= range_end_utc)
        THEN [running |-> FALSE, current_slot_start |-> cur, slots |-> <<>>]
        ELSE [running |-> TRUE,
              current_slot_start |-> cur + AC__get_slot_interval(et),
              slots |-> IF AC__is_slot_available(et, cur, slot_end, attendee_count,
                                                 Minutes(et.buffer_time_before),
                                                 Minutes(et.buffer_time_after))
                        THEN <<Slot(cur, slot_end, et,
                                    AC__get_available_spots(et, cur, slot_end))>>
                        ELSE <<>>]

AC__generate_slots_for_time_range(et, date, start_time, end_time, attendee_count) ==
    AC__slot_loop(combine_utc(cfg.tz, date, start_time),
                  combine_utc(cfg.tz, date, end_time), et, attendee_count)

AC__generate_slots_for_availability_rule(et, rule, date, attendee_count) ==
    IF spans_midnight(rule)
    THEN AC__generate_slots_for_time_range(et, date, rule.start_time, EndOfDaySentinel,
                                           attendee_count)
         \o AC__generate_slots_for_time_range(et, date + 1, 0, rule.end_time, attendee_count)
    ELSE AC__generate_slots_for_time_range(et, date, rule.start_time, rule.end_time,
                                           attendee_count)

RECURSIVE AC__merge_fold(_, _, _)
AC__merge_fold(current_slot, rest, merged_slots) ==
    IF rest = <<>> THEN Append(merged_slots, current_slot)
    ELSE LET next_slot == Head(rest)
         IN  IF current_slot.end_time >= next_slot.start_time
             THEN LET end_time == Max(current_slot.end_time, next_slot.end_time)
                  IN  AC__merge_fold(
                          [current_slot EXCEPT
                              !.end_time = end_time,
                              !.duration_minutes = (end_time - current_slot.start_time) \div 60],
                          Tail(rest), merged_slots)
             ELSE AC__merge_fold(next_slot, Tail(rest), Append(merged_slots, current_slot))

AC__merge_and_deduplicate_slots(slots) ==
    IF slots = <<>> THEN slots
    ELSE LET sorted_slots == SortByStart(slots)
         IN  AC__merge_fold(Head(sorted_slots), Tail(sorted_slots), <<>>)

\* _get_day_availability: generated is the list the method builds (the override's
\* slots, or day_slots of the rules), slots is what it returns
AC__get_day_availability(et, date, attendee_count) ==
    LET availability_rules == {r \in cfg.availability_rules :
                                  r.day_of_week = weekday(date)}
        on_date == {o \in cfg.date_overrides : o.date = date}
    IN  IF availability_rules = {} THEN [generated |-> <<>>, slots |-> <<>>]
        ELSE IF on_date # {}
        THEN LET date_override == CHOOSE o \in on_date : TRUE
             IN  IF ~date_override.is_available THEN [generated |-> <<>>, slots |-> <<>>]
                 ELSE LET range_slots ==
                              AC__generate_slots_for_time_range(et, date,
                                  date_override.start_time, date_override.end_time,
                                  attendee_count)
                      IN  [generated |-> range_slots, slots |-> range_slots]
        ELSE LET rules == SetToSeq(availability_rules)
                 day_slots ==
                     Flatten([i \in 1..Len(rules) |->
                         AC__generate_slots_for_availability_rule(et, rules[i], date,
                                                                  attendee_count)])
             IN  [generated |-> day_slots,
                  slots |-> AC__merge_and_deduplicate_slots(day_slots)]

AC__calculate_fresh_availability(et, start_date, end_date, attendee_count) ==
    LET n == IF end_date >= start_date THEN end_date - start_date + 1 ELSE 0
        days == [i \in 1..n |->
                    IF ~can_book_on_date(et, start_date + i - 1)
                    THEN [generated |-> <<>>, slots |-> <<>>]
                    ELSE AC__get_day_availability(et, start_date + i - 1, attendee_count)]
    IN  [generated |-> Flatten([i \in 1..n |-> days[i].generated]),
         slots |-> SortByStart(Flatten([i \in 1..n |-> days[i].slots]))]

\* EventTypeAvailabilityCache.is_expired()
is_expired(entry) == now >= entry.expires_at

\* A lookup that does not filter on is_dirty
lookup_ignoring_dirty(et, r) ==
    IF r.start_date # r.end_date THEN {}
    ELSE {e \in cacheB :
            /\ e.event_type = et.id
            /\ e.date = r.start_date
            /\ e.timezone_name = r.invitee_timezone
            /\ e.attendee_count = r.attendee_count
            /\ ~is_expired(e)}

\* the row of _get_cached_availability's lookup, if it is clean and not expired
AC__get_cached_availability(et, r) ==
    IF r.start_date # r.end_date THEN {}
    ELSE {e \in cacheB :
            /\ e.event_type = et.id
            /\ e.date = r.start_date
            /\ e.timezone_name = r.invitee_timezone
            /\ e.attendee_count = r.attendee_count
            /\ ~e.is_dirty
            /\ ~is_expired(e)}

\* A write that does not look at the range and files the result under start_date
cache_any_range(et, r, slots) ==
    {e \in cacheB :
        ~ ( /\ e.event_type = et.id
            /\ e.date = r.start_date
            /\ e.timezone_name = r.invitee_timezone
            /\ e.attendee_count = r.attendee_count )}
    \cup {[event_type |-> et.id, date |-> r.start_date,
           timezone_name |-> r.invitee_timezone,
           attendee_count |-> r.attendee_count,
           available_slots |-> slots, expires_at |-> now + CacheTtlB,
           is_dirty |-> FALSE]}

\* update_or_create on (organizer, event_type, date, timezone_name, attendee_count)
AC__cache_availability(et, r, slots) ==
    IF r.start_date # r.end_date THEN cacheB
    ELSE {e \in cacheB :
            ~ ( /\ e.event_type = et.id
                /\ e.date = r.start_date
                /\ e.timezone_name = r.invitee_timezone
                /\ e.attendee_count = r.attendee_count )}
         \cup {[event_type |-> et.id, date |-> r.start_date,
                timezone_name |-> r.invitee_timezone,
                attendee_count |-> r.attendee_count,
                available_slots |-> slots, expires_at |-> now + CacheTtlB,
                is_dirty |-> FALSE]}

\* str(e) of the exception ZoneInfo(key) raises for a key it does not know
ZoneInfoNotFound == "No time zone found"

\* _generate_slots_for_time_range builds ZoneInfo(self.invitee_timezone) once a
\* candidate has passed _is_slot_available (line 201), and nowhere before it
raises_on_invitee_timezone(r, computed) ==
    ~validate_timezone(r.invitee_timezone) /\ computed.generated # <<>>

\* The response of get_available_slots (use_cache=True) and the cache table after it
AC_get_available_slots(et, r) ==
    LET cached_result == AC__get_cached_availability(et, r)
    IN  IF cached_result # {}
        THEN [response |-> [engine |-> "B", warnings |-> <<>>,
                            slots |-> (CHOOSE e \in cached_result : TRUE).available_slots,
                            generated |-> <<>>,
                            cache_hit |-> TRUE, error |-> "", at |-> now],
              cache |-> cacheB]
        ELSE LET computed ==
                     AC__calculate_fresh_availability(et, r.start_date, r.end_date,
                                                      r.attendee_count)
                 available_slots == computed.slots
             IN  IF raises_on_invitee_timezone(r, computed)
                 THEN [response |-> [engine |-> "B", warnings |-> <<>>, slots |-> <<>>, generated |-> <<>>,
                                     cache_hit |-> FALSE, error |-> ZoneInfoNotFound,
                                     at |-> now],
                       cache |-> cacheB]
                 ELSE
                  [response |-> [engine |-> "B", warnings |-> <<>>, slots |-> available_slots,
                                generated |-> computed.generated,
                                cache_hit |-> FALSE, error |-> "", at |-> now],
                  cache |-> AC__cache_availability(et, r, available_slots)]

-----------------------------------------------------------------------------
(* The organizer data and the requests the availability engines are run on *)

\* Number of 10-minute clock steps a behaviour may take
MaxTicks == 2

UTC == [std |-> 0, trans |-> -1]
CET == [std |-> 3600, trans |-> -1]

\* Date 1 is "today" (a Tuesday); the clock starts at 08:00 UTC
Today == 1
StartOfBusiness == At(Today, 8, 0)

\* BufferTime.objects.get_or_create(organizer=...): the row with its defaults
DefaultBufferSettings ==
    [default_buffer_before |-> 0, default_buffer_after |-> 0, minimum_gap |-> 0,
     slot_interval_minutes |-> DefaultSlotIntervalMinutes]

BaseEventType ==
    [id |-> 1, duration |-> 30, buffer_time_before |-> 0, buffer_time_after |-> 0,
     min_scheduling_notice |-> 0, max_scheduling_horizon |-> 10080,
     max_bookings_per_day |-> 0, max_attendees |-> 1, slot_interval_minutes |-> 30]

RuleMorning == [day_of_week |-> weekday(Today), start_time |-> TimeOfDay(9, 0),
                end_time |-> TimeOfDay(11, 0)]
RuleNight == [day_of_week |-> weekday(Today), start_time |-> TimeOfDay(23, 0),
              end_time |-> TimeOfDay(1, 0)]
RuleDay == [day_of_week |-> weekday(Today), start_time |-> TimeOfDay(9, 0),
            end_time |-> TimeOfDay(17, 0)]

OverrideClosed(date) ==
    [date |-> date, is_available |-> FALSE, has_times |-> FALSE,
     start_time |-> 0, end_time |-> 0]
OverrideOpen(date, from, to) ==
    [date |-> date, is_available |-> TRUE, has_times |-> TRUE,
     start_time |-> from, end_time |-> to]

OverrideSets ==
    {{}, {OverrideClosed(Today)}, {OverrideClosed(Today + 1)},
     {OverrideOpen(Today, TimeOfDay(9, 30), TimeOfDay(10, 30))},
     {OverrideOpen(Today + 1, TimeOfDay(9, 0), TimeOfDay(10, 0))},
     {OverrideOpen(Today, TimeOfDay(22, 30), TimeOfDay(0, 30))}}

BlockTen == [start_datetime |-> At(Today, 10, 0), end_datetime |-> At(Today, 10, 30)]

BookSame(n) ==
    [id |-> 1, event_type |-> 1, start_time |-> At(Today, 9, 30),
     end_time |-> At(Today, 10, 0), status |-> "confirmed", attendees |-> n,
     attendee_count |-> Max(n, 1)]
BookOther ==
    [id |-> 2, event_type |-> 2, start_time |-> At(Today, 10, 30),
     end_time |-> At(Today, 11, 0), status |-> "confirmed", attendees |-> 0,
     attendee_count |-> 1]
BookCancelled ==
    [id |-> 3, event_type |-> 1, start_time |-> At(Today, 9, 0),
     end_time |-> At(Today, 9, 30), status |-> "cancelled", attendees |-> 0,
     attendee_count |-> 1]

Config(tz, rules, overrides, blocked) ==
    [tz |-> tz, availability_rules |-> rules, date_overrides |-> overrides,
     blocked_times |-> blocked, recurring_blocks |-> {}, calendar_integrations |-> {},
     buffer_settings |-> DefaultBufferSettings]

DateRanges == {<<Today, Today>>, <<Today + 1, Today + 1>>, <<Today, Today + 1>>}

\* invitee_timezones is left at its default (None) in these requests
Request(range, n) ==
    [start_date |-> range[1], end_date |-> range[2], invitee_timezone |-> "UTC",
     attendee_count |-> n]

\* Which window applies: rules and overrides, in two zones
ResolutionScenarios ==
    {[cfg |-> Config(tz, rules, overrides, {}),
      etype |-> [BaseEventType EXCEPT !.slot_interval_minutes = i],
      bookings |-> {},
      req |-> Request(range, 1)] :
        tz \in {UTC, CET}, rules \in SUBSET {RuleMorning, RuleNight},
        overrides \in OverrideSets, i \in {15, 30}, range \in DateRanges}

Buffers == {<<0, 0>>, <<15, 0>>, <<0, 15>>}

\* Which candidates are free: blocks and the bookings of a one-to-one event type
ConflictScenarios ==
    {[cfg |-> Config(UTC, {RuleMorning}, {}, blocked),
      etype |-> [BaseEventType EXCEPT !.slot_interval_minutes = i,
                                      !.buffer_time_before = buf[1],
                                      !.buffer_time_after = buf[2]],
      bookings |-> bk,
      req |-> Request(range, 1)] :
        blocked \in SUBSET {BlockTen}, i \in {15, 30}, buf \in Buffers,
        bk \in {{}, {BookSame(0)}, {BookOther}, {BookCancelled}},
        range \in {<<Today, Today>>, <<Today, Today + 1>>}}

\* ... and of a group event type with room for three
GroupScenarios ==
    {[cfg |-> Config(UTC, {RuleMorning}, {}, {}),
      etype |-> [BaseEventType EXCEPT !.slot_interval_minutes = i,
                                      !.buffer_time_before = buf[1],
                                      !.buffer_time_after = buf[2],
                                      !.max_attendees = 3],
      bookings |-> bk,
      req |-> Request(<<Today, Today>>, n)] :
        i \in {15, 30}, buf \in Buffers, n \in {1, 2},
        bk \in {{BookSame(1)}, {BookSame(2)}, {BookSame(2), BookOther}}}

\* Notice and horizon
NoticeScenarios ==
    {[cfg |-> Config(UTC, {RuleMorning}, {}, {}),
      etype |-> [BaseEventType EXCEPT !.min_scheduling_notice = notice,
                                      !.max_scheduling_horizon = horizon],
      bookings |-> {},
      req |-> Request(range, 1)] :
        notice \in {0, 60}, horizon \in {90, 10080},
        range \in {<<Today, Today>>, <<Today, Today + 1>>}}

\* An active, sync-enabled CalendarIntegration and what its provider holds
GoogleCalendar(fails) ==
    [provider |-> "google", fails |-> fails,
     events |-> {[start_time |-> At(Today, 9, 30), end_time |-> At(Today, 10, 0)]}]
OutlookCalendar(fails) ==
    [provider |-> "outlook", fails |-> fails,
     events |-> {[start_time |-> At(Today, 10, 0), end_time |-> At(Today, 10, 30)]}]

\* External calendars: none, one or two integrations, each answering or failing
ExternalScenarios ==
    {[cfg |-> [Config(UTC, {RuleMorning}, {}, {}) EXCEPT
                  !.calendar_integrations = google \cup outlook],
      etype |-> BaseEventType,
      bookings |-> {},
      req |-> Request(range, 1)] :
        google \in {{}, {GoogleCalendar(FALSE)}, {GoogleCalendar(TRUE)}},
        outlook \in {{}, {OutlookCalendar(FALSE)}, {OutlookCalendar(TRUE)}},
        range \in {<<Today, Today>>, <<Today, Today + 1>>}}

\* The organizer's BufferTime.minimum_gap against the slot interval
GapScenarios ==
    {[cfg |-> [Config(UTC, {RuleMorning}, {}, blocked) EXCEPT
                  !.buffer_settings.minimum_gap = gap],
      etype |-> [BaseEventType EXCEPT !.slot_interval_minutes = i],
      bookings |-> {},
      req |-> Request(<<Today, Today>>, 1)] :
        gap \in {0, 20, 45}, i \in {15, 30}, blocked \in SUBSET {BlockTen}}

\* An active RecurringBlockedTime of today's weekday, 23:00 to 01:00 of the next
\* day, without date bounds (start_date and end_date are None: -1)
RecurringNight ==
    [day_of_week |-> weekday(Today), start_time |-> TimeOfDay(23, 0),
     end_time |-> TimeOfDay(1, 0), start_date |-> -1, end_date |-> -1]
RuleLate == [day_of_week |-> weekday(Today), start_time |-> TimeOfDay(22, 0),
             end_time |-> TimeOfDay(23, 30)]
RuleAfterMidnight == [day_of_week |-> weekday(Today + 1), start_time |-> TimeOfDay(0, 0),
                      end_time |-> TimeOfDay(2, 0)]

\* Recurring blocks: windows before and after the midnight the block spans
RecurringScenarios ==
    {[cfg |-> [Config(tz, rules, {}, {}) EXCEPT !.recurring_blocks = recurring],
      etype |-> [BaseEventType EXCEPT !.slot_interval_minutes = i],
      bookings |-> {},
      req |-> Request(range, 1)] :
        tz \in {UTC, CET}, rules \in {{RuleLate}, {RuleAfterMidnight}, {RuleNight}},
        recurring \in SUBSET {RecurringNight}, i \in {15, 30}, range \in DateRanges}

\* Requests for one, two or four attendees, of a one-to-one event type and of a
\* group event type with room for three
AttendeeScenarios ==
    {[cfg |-> Config(UTC, {RuleMorning}, {}, {}),
      etype |-> [BaseEventType EXCEPT !.max_attendees = m],
      bookings |-> bk,
      req |-> Request(<<Today, Today>>, n)] :
        m \in {1, 3}, n \in {1, 2, 4}, bk \in {{}, {BookSame(1)}, {BookOther}}}

\* A plain working day: one rule 09:00-17:00, nothing else
WorkingDayScenarios ==
    {[cfg |-> Config(UTC, {RuleDay}, {}, {}),
      etype |-> BaseEventType,
      bookings |-> {},
      req |-> Request(range, 1)] :
        range \in {<<Today, Today>>, <<Today, Today + 1>>}}

\* A zone one hour east of UTC whose clocks go forward tomorrow at 02:00 local
SpringForward == [std |-> 3600, trans |-> At(Today + 1, 1, 0)]
RuleEarly == [day_of_week |-> weekday(Today + 1), start_time |-> TimeOfDay(1, 30),
              end_time |-> TimeOfDay(3, 30)]
RuleMorningAfter == [day_of_week |-> weekday(Today + 1), start_time |-> TimeOfDay(9, 0),
                     end_time |-> TimeOfDay(10, 0)]

\* The night the clocks change
DstScenarios ==
    {[cfg |-> Config(SpringForward, rules, {}, {}),
      etype |-> [BaseEventType EXCEPT !.slot_interval_minutes = i],
      bookings |-> {},
      req |-> Request(range, 1)] :
        rules \in {{RuleEarly}, {RuleEarly, RuleMorningAfter}}, i \in {15, 30},
        range \in {<<Today + 1, Today + 1>>, <<Today, Today + 1>>}}

\* A timezone name ZoneInfo does not know
MalformedZone == "Mars/Phobos"

\* Requests with a malformed invitee timezone or with end_date before start_date
InvalidInputScenarios ==
    {[cfg |-> Config(UTC, rules, {}, blocked),
      etype |-> BaseEventType,
      bookings |-> bk,
      req |-> [Request(range, 1) EXCEPT !.invitee_timezone = zone]] :
        rules \in SUBSET {RuleMorning}, blocked \in SUBSET {BlockTen},
        bk \in {{}, {BookSame(0)}}, zone \in {"UTC", MalformedZone},
        range \in {<<Today, Today>>, <<Today, Today + 1>>, <<Today + 1, Today>>}}

Scenarios ==
    ResolutionScenarios \cup ConflictScenarios \cup GroupScenarios \cup NoticeScenarios
        \cup WorkingDayScenarios \cup DstScenarios \cup InvalidInputScenarios
        \cup ExternalScenarios \cup GapScenarios \cup RecurringScenarios
        \cup AttendeeScenarios

\* Number of concurrent callers of create_booking_with_validation
NumCallers == 2
Callers == 1..NumCallers

NoCall == [start_time |-> 0, attendee_count |-> 0, existing_booking |-> 0,
           booking |-> 0, created |-> FALSE, errors |-> <<>>]

NoResponse == [engine |-> "none", warnings |-> <<>>, slots |-> <<>>, generated |-> <<>>,
               cache_hit |-> FALSE, error |-> "", at |-> 0]

InitAvail ==
    /\ \E s \in Scenarios :
        /\ cfg = s.cfg
        /\ etype = s.etype
        /\ bookings = s.bookings
        /\ req = s.req
    /\ now = StartOfBusiness
    /\ cacheA = {}
    /\ cacheB = {}
    /\ res = NoResponse
    /\ pc = [p \in Callers |-> "idle"]
    /\ call = [p \in Callers |-> NoCall]
    /\ audit = 0
    /\ arg = <<>>
    /\ ret = <<>>

\* A request served by calculate_available_slots
CalculateAvailableSlots ==
    /\ LET out == calculate_available_slots(req)
       IN  /\ res' = out.response
           /\ cacheA' = out.cache
    /\ UNCHANGED <<arg, ret, cfg, etype, bookings, now, req, cacheB, pc, call, audit>>

\* A request served by AvailabilityCalculator(organizer, event_type, tz).get_available_slots
GetAvailableSlots ==
    /\ LET out == AC_get_available_slots(etype, req)
       IN  /\ res' = out.response
           /\ cacheB' = out.cache
    /\ UNCHANGED <<arg, ret, cfg, etype, bookings, now, req, cacheA, pc, call, audit>>

\* Ten minutes pass
Tick ==
    /\ now < StartOfBusiness + MaxTicks * Minutes(10)
    /\ now' = now + Minutes(10)
    /\ UNCHANGED <<arg, ret, cfg, etype, bookings, req, cacheA, cacheB, res, pc, call, audit>>

NextAvail == CalculateAvailableSlots \/ GetAvailableSlots \/ Tick

SpecAvail == InitAvail /\ [][NextAvail]_vars

-----------------------------------------------------------------------------
(* apps/events/utils.py: create_booking_with_validation, and the signal    *)
(* receivers of apps/events/signals.py that run on its writes.             *)
(* Each caller runs the function once, inside its own transaction.atomic() *)
(* block; the block takes no lock (no select_for_update), so the queries   *)
(* and writes of two callers interleave.  A write and the commit that ends *)
(* the block are one step.  custom_answers is None.  The Booking table has *)
(* no uniqueness constraint.                                                *)

\* An invalidation that deletes the rows of the date
delete_cache_rows(cache, date) == {e \in cache : e.date # date}

\* invalidate_availability_cache(organizer, date): marks the rows dirty
invalidate_availability_cache(cache, date) ==
    {IF e.date = date THEN [e EXCEPT !.is_dirty = TRUE] ELSE e : e \in cache}

\* post_save of Booking: invalidate_cache_on_booking_change, run on commit
invalidate_cache_on_booking_change(cache, instance) ==
    LET first == invalidate_availability_cache(cache, utc_date(instance.start_time))
    IN  IF utc_date(instance.start_time) # utc_date(instance.end_time)
        THEN invalidate_availability_cache(first, utc_date(instance.end_time))
        ELSE first

\* post_save of a created Attendee: handle_attendee_changes recounts the booking
handle_attendee_changes(b) ==
    [b EXCEPT !.attendees = b.attendees + 1, !.attendee_count = b.attendees + 1]

NotAvailable == "Selected time slot is no longer available"

RequestedEnd(c) == c.start_time + Minutes(etype.duration)

\* The times a caller may ask for: the 09:30 session, one that overlaps it and
\* one that ends as it starts
StartChoices == {At(Today, 9, 0), At(Today, 9, 30), At(Today, 9, 45)}

\* The primary key of a new Booking row
NextId ==
    IF bookings = {} THEN 1
    ELSE 1 + (CHOOSE m \in {b.id : b \in bookings} : \A b \in bookings : b.id <= m)

\* A final check whose failure records the error but does not return
CheckSlotWithoutReturn(p) ==
    /\ pc[p] = "idle"
    /\ \E start_time \in StartChoices, attendee_count \in {1, 2} :
        LET end_time == start_time + Minutes(etype.duration)
            free == AC__is_slot_available(etype, start_time, end_time, attendee_count,
                                          Minutes(etype.buffer_time_before),
                                          Minutes(etype.buffer_time_after))
        IN  /\ call' = [call EXCEPT ![p] =
                            [start_time |-> start_time, attendee_count |-> attendee_count,
                             existing_booking |-> 0, booking |-> 0, created |-> FALSE,
                             errors |-> IF free THEN <<>> ELSE <<NotAvailable>>]]
            /\ pc' = [pc EXCEPT ![p] = "checked"]
    /\ UNCHANGED <<arg, ret, cfg, etype, bookings, now, req, cacheA, cacheB, res, audit>>

\* Lines 576-590: the arguments, and the final availability check
CheckSlot(p) ==
    /\ pc[p] = "idle"
    /\ \E start_time \in StartChoices, attendee_count \in {1, 2} :
        LET end_time == start_time + Minutes(etype.duration)
            free == AC__is_slot_available(etype, start_time, end_time, attendee_count,
                                          Minutes(etype.buffer_time_before),
                                          Minutes(etype.buffer_time_after))
        IN  /\ call' = [call EXCEPT ![p] =
                            [start_time |-> start_time, attendee_count |-> attendee_count,
                             existing_booking |-> 0, booking |-> 0, created |-> FALSE,
                             errors |-> IF free THEN <<>> ELSE <<NotAvailable>>]]
            /\ pc' = [pc EXCEPT ![p] = IF free THEN "checked" ELSE "done"]
    /\ UNCHANGED <<arg, ret, cfg, etype, bookings, now, req, cacheA, cacheB, res, audit>>

\* Lines 599-608: the existing group booking at this time, .first() of an
\* unordered queryset
LookupGroupBooking(p) ==
    /\ pc[p] = "checked"
    /\ LET same == {b \in Confirmed(bookings) :
                      /\ b.event_type = etype.id
                      /\ b.start_time = call[p].start_time
                      /\ b.end_time = RequestedEnd(call[p])}
       IN  IF is_group_event(etype) /\ same # {}
           THEN \E b \in same :
                   call' = [call EXCEPT ![p].existing_booking = b.id]
           ELSE call' = [call EXCEPT ![p].existing_booking = 0]
    /\ pc' = [pc EXCEPT ![p] = "looked_up"]
    /\ UNCHANGED <<arg, ret, cfg, etype, bookings, now, req, cacheA, cacheB, res, audit>>

\* Lines 610-637: one Attendee row is added to the existing group booking
AddAttendee(p) ==
    /\ pc[p] = "looked_up"
    /\ call[p].existing_booking # 0
    /\ LET existing_booking == CHOOSE b \in bookings : b.id = call[p].existing_booking
       IN  /\ bookings' = (bookings \ {existing_booking})
                              \cup {handle_attendee_changes(existing_booking)}
           /\ cacheB' = invalidate_cache_on_booking_change(cacheB, existing_booking)
    /\ audit' = audit + 1
    /\ call' = [call EXCEPT ![p].booking = call[p].existing_booking,
                            ![p].created = FALSE, ![p].errors = <<>>]
    /\ pc' = [pc EXCEPT ![p] = "done"]
    /\ UNCHANGED <<arg, ret, cfg, etype, now, req, cacheA, res>>

\* Lines 638-677: a new Booking (status confirmed), with its primary Attendee
\* when the event type is a group event
CreateBooking(p) ==
    /\ pc[p] = "looked_up"
    /\ call[p].existing_booking = 0
    /\ LET id == NextId
           row == [id |-> id, event_type |-> etype.id,
                   start_time |-> call[p].start_time, end_time |-> RequestedEnd(call[p]),
                   status |-> "confirmed", attendees |-> 0,
                   attendee_count |-> call[p].attendee_count]
           booking == IF is_group_event(etype) THEN handle_attendee_changes(row) ELSE row
       IN  /\ bookings' = bookings \cup {booking}
           /\ cacheB' = invalidate_cache_on_booking_change(cacheB, booking)
           /\ call' = [call EXCEPT ![p].booking = id, ![p].created = TRUE,
                                   ![p].errors = <<>>]
    /\ audit' = audit + 1
    /\ pc' = [pc EXCEPT ![p] = "done"]
    /\ UNCHANGED <<arg, ret, cfg, etype, now, req, cacheA, res>>

\* max_bookings_per_day of the event type that has a daily limit
DailyLimit == 1

\* The organizer's day when the callers arrive
BookingScenarios ==
    UNION {{[etype |-> [BaseEventType EXCEPT !.max_attendees = m,
                                             !.slot_interval_minutes = 15],
             bookings |-> bk] :
                bk \in {{}, {BookOther}, {BookSame(IF m > 1 THEN 2 ELSE 0)}}} :
           m \in {1, 3}}
    \cup {[etype |-> [BaseEventType EXCEPT !.max_bookings_per_day = DailyLimit,
                                            !.slot_interval_minutes = 15],
            bookings |-> bk] : bk \in {{}, {BookOther}}}

CleanCacheRow(date) ==
    [event_type |-> 1, date |-> date, timezone_name |-> "UTC", attendee_count |-> 1,
     available_slots |-> <<>>, expires_at |-> StartOfBusiness + CacheTtlB,
     is_dirty |-> FALSE]

InitBook ==
    /\ cfg = Config(UTC, {RuleMorning}, {}, {})
    /\ \E s \in BookingScenarios :
        /\ etype = s.etype
        /\ bookings = s.bookings
    /\ now = StartOfBusiness
    /\ req = Request(<<Today, Today>>, 1)
    /\ cacheA = {}
    /\ cacheB = {CleanCacheRow(Today), CleanCacheRow(Today + 1)}
    /\ res = NoResponse
    /\ pc = [p \in Callers |-> "idle"]
    /\ call = [p \in Callers |-> NoCall]
    /\ audit = 0
    /\ arg = <<>>
    /\ ret = <<>>

NextBook ==
    \E p \in Callers :
        \/ CheckSlot(p)
        \/ LookupGroupBooking(p)
        \/ AddAttendee(p)
        \/ CreateBooking(p)

SpecBook == InitBook /\ [][NextBook]_vars

-----------------------------------------------------------------------------
(* The caches over time: requests for several keys, the clock, and a        *)
(* booking of the one-to-one event type being created and cancelled.       *)

\* Number of one-hour clock steps (the Django cache entry lives 15 minutes, the
\* EventTypeAvailabilityCache row one hour)
MaxCacheTicks == 1

CacheRequests ==
    {[start_date |-> x[1], end_date |-> x[2], invitee_timezone |-> x[3],
      attendee_count |-> x[4]] :
        x \in {<<Today, Today, "UTC", 1>>, <<Today, Today, "UTC", 2>>,
               <<Today, Today + 1, "UTC", 1>>}}

InitCache ==
    /\ cfg = Config(UTC, {RuleMorning, RuleMorningAfter}, {}, {})
    /\ etype = BaseEventType
    /\ bookings = {}
    /\ req \in CacheRequests
    /\ now = StartOfBusiness
    /\ cacheA = {}
    /\ cacheB = {}
    /\ res = NoResponse
    /\ pc = [p \in Callers |-> "idle"]
    /\ call = [p \in Callers |-> NoCall]
    /\ audit = 0
    /\ arg = <<>>
    /\ ret = <<>>

\* The client turns to another request; the last answer is not for it
NewRequest ==
    /\ req' \in CacheRequests \ {req}
    /\ res' = NoResponse
    /\ UNCHANGED <<arg, ret, cfg, etype, bookings, now, cacheA, cacheB, pc, call, audit>>

\* An hour passes; the cache backend drops the keys whose timeout has run out
CacheTick ==
    /\ now < StartOfBusiness + MaxCacheTicks * Hours(1)
    /\ now' = now + Hours(1)
    /\ cacheA' = {e \in cacheA : now' < e.expires}
    /\ UNCHANGED <<arg, ret, cfg, etype, bookings, req, cacheB, res, pc, call, audit>>

\* handle_booking_cancellation(booking) of a confirmed booking: booking.cancel()
\* saves the row (post_save: invalidate_cache_on_booking_change), the audit log
\* row is written and the cache of the booking's date is invalidated
HandleBookingCancellation ==
    /\ \E booking \in Confirmed(bookings) :
        /\ bookings' = (bookings \ {booking}) \cup {[booking EXCEPT !.status = "cancelled"]}
        /\ cacheB' = invalidate_availability_cache(
                         invalidate_cache_on_booking_change(cacheB, booking),
                         utc_date(booking.start_time))
    /\ audit' = audit + 1
    /\ UNCHANGED <<arg, ret, cfg, etype, now, req, cacheA, res, pc, call>>

\* Most Booking rows a behaviour writes
MaxBookings == 1

\* create_booking_with_validation run from start to end by a single caller, for
\* the 09:30 slot of the one-to-one event type: the check, the new row, the
\* audit log row, and the signal receivers on commit
CreateBookingWithValidation ==
    /\ Cardinality(bookings) < MaxBookings
    /\ ~is_group_event(etype)
    /\ LET start_time == At(Today, 9, 30)
           end_time == start_time + Minutes(etype.duration)
           booking == [id |-> NextId, event_type |-> etype.id,
                       start_time |-> start_time, end_time |-> end_time,
                       status |-> "confirmed", attendees |-> 0, attendee_count |-> 1]
       IN  /\ AC__is_slot_available(etype, start_time, end_time, 1,
                                    Minutes(etype.buffer_time_before),
                                    Minutes(etype.buffer_time_after))
           /\ bookings' = bookings \cup {booking}
           /\ cacheB' = invalidate_cache_on_booking_change(cacheB, booking)
    /\ audit' = audit + 1
    /\ UNCHANGED <<arg, ret, cfg, etype, now, req, cacheA, res, pc, call>>

\* str(e) of the exception a cache backend or the cache table raises when it
\* cannot be read
CacheUnavailable == "cache read failed"

\* calculate_available_slots when cache.get raises (line 132): nothing around the
\* call catches, so the exception leaves the function
CalculateAvailableSlotsCacheError ==
    /\ validate_timezone(req.invitee_timezone)
    /\ res' = [engine |-> "A", warnings |-> <<>>, slots |-> <<>>, generated |-> <<>>,
               cache_hit |-> FALSE, error |-> CacheUnavailable, at |-> now]
    /\ UNCHANGED <<arg, ret, cfg, etype, bookings, now, req, cacheA, cacheB, pc, call,
                   audit>>

\* get_available_slots when the query of _get_cached_availability raises anything
\* but DoesNotExist (lines 473-491): the except of get_available_slots (line 70)
\* answers with the error and an empty list
GetAvailableSlotsCacheError ==
    /\ req.start_date = req.end_date
    /\ res' = [engine |-> "B", warnings |-> <<>>, slots |-> <<>>, generated |-> <<>>,
               cache_hit |-> FALSE, error |-> CacheUnavailable, at |-> now]
    /\ UNCHANGED <<arg, ret, cfg, etype, bookings, now, req, cacheA, cacheB, pc, call,
                   audit>>

\* availability/signals.py, track_event_type_changes: the fields it compares
availability_fields ==
    {"duration", "buffer_time_before", "buffer_time_after", "min_booking_notice",
     "max_booking_advance", "max_attendees", "is_active"}

\* getattr(old, field, None) != getattr(new, field, None), over availability_fields
track_event_type_changes(old, new) ==
    {field \in availability_fields \cap DOMAIN old : old[field] # new[field]}

\* The fields of an event type that shape its availability
AvailabilityAffectingFields ==
    {"duration", "buffer_time_before", "buffer_time_after", "min_scheduling_notice",
     "max_scheduling_horizon", "max_bookings_per_day", "max_attendees",
     "slot_interval_minutes"}

\* EventType.save(): sets _availability_affecting_fields_changed when one of the
\* availability-affecting fields differs from the stored row
sets_affecting_fields_changed(old, new) ==
    \E field \in AvailabilityAffectingFields : old[field] # new[field]

\* The Celery task clear_availability_cache(organizer_id, ...): marks the
\* organizer's cache rows dirty
clear_availability_cache(cache) == {[e EXCEPT !.is_dirty = TRUE] : e \in cache}

\* invalidate_availability_cache(organizer) with date=None: every row of the organizer
invalidate_all_availability_cache(cache) == {[e EXCEPT !.is_dirty = TRUE] : e \in cache}

\* New values an organizer gives to a field of the event type
EventTypeEdits ==
    {<<"duration", 60>>, <<"max_bookings_per_day", 1>>, <<"slot_interval_minutes", 15>>}

\* event_type.save() of the existing event type with one field changed, and the
\* pre_save and post_save receivers of both signal modules
SaveEventType ==
    /\ etype = BaseEventType
    /\ \E edit \in EventTypeEdits :
        LET instance == [etype EXCEPT ![edit[1]] = edit[2]]
            fields_changed == track_event_type_changes(etype, instance)
            after_task == IF fields_changed # {} THEN clear_availability_cache(cacheB)
                          ELSE cacheB
        IN  /\ etype' = instance
            /\ cacheB' = IF sets_affecting_fields_changed(etype, instance)
                          THEN invalidate_all_availability_cache(after_task)
                          ELSE after_task
    /\ UNCHANGED <<arg, ret, cfg, bookings, now, req, cacheA, res, pc, call, audit>>

\* Requests around a save of the event type
NextEventType ==
    \/ SaveEventType
    \/ CalculateAvailableSlots
    \/ GetAvailableSlots
    \/ NewRequest

SpecEventType == InitCache /\ [][NextEventType]_vars

NextCache ==
    \/ CalculateAvailableSlots
    \/ GetAvailableSlots
    \/ CalculateAvailableSlotsCacheError
    \/ GetAvailableSlotsCacheError
    \/ NewRequest
    \/ CacheTick
    \/ CreateBookingWithValidation
    \/ HandleBookingCancellation

SpecCache == InitCache /\ [][NextCache]_vars

-----------------------------------------------------------------------------
(* Requests after an invalidation: the cache table holds rows written by   *)
(* earlier get_available_slots calls, some of them marked dirty by          *)
(* invalidate_availability_cache; from then on nothing is mutated and the  *)
(* clock stands still, and requests are served one after the other.        *)

\* A row of EventTypeAvailabilityCache left by an earlier request for (date,
\* UTC, attendee_count), clean or marked dirty since
CacheRowOf(date, attendee_count, dirty) ==
    [CleanCacheRow(date) EXCEPT !.attendee_count = attendee_count, !.is_dirty = dirty]

InvalidatedTables ==
    {a \cup b : a \in {{}, {CacheRowOf(Today, 1, TRUE)}, {CacheRowOf(Today, 1, FALSE)}},
                b \in {{}, {CacheRowOf(Today, 2, TRUE)}}}

InitRecompute ==
    /\ cfg = Config(UTC, {RuleMorning, RuleMorningAfter}, {}, {})
    /\ etype = BaseEventType
    /\ bookings \in {{}, {BookSame(0)}}
    /\ req \in CacheRequests
    /\ now = StartOfBusiness
    /\ cacheA = {}
    /\ cacheB \in InvalidatedTables
    /\ res = NoResponse
    /\ pc = [p \in Callers |-> "idle"]
    /\ call = [p \in Callers |-> NoCall]
    /\ audit = 0
    /\ arg = <<>>
    /\ ret = <<>>

NextRecompute ==
    \/ CalculateAvailableSlots
    \/ GetAvailableSlots
    \/ NewRequest

SpecRecompute == InitRecompute /\ [][NextRecompute]_vars

-----------------------------------------------------------------------------
(* get_available_slots run by concurrent callers for the same request.  The *)
(* method takes no lock: between its queries (the cache lookup and the     *)
(* fresh calculation, lines 48-57) and its cache write (line 61) other     *)
(* requests run, among them ones that write bookings and invalidate.       *)

\* Lines 46-57: the cache lookup and, on a miss, the fresh calculation; the
\* caller keeps available_slots and (for the properties) the bookings it read
GetAvailableSlotsRead(p) ==
    /\ pc[p] = "idle"
    /\ LET out == AC_get_available_slots(etype, req)
       IN  IF out.response.cache_hit \/ out.response.error # ""
           THEN /\ res' = out.response
                /\ pc' = [pc EXCEPT ![p] = "done"]
                /\ call' = call
           ELSE /\ call' = [call EXCEPT ![p] = [request |-> req, response |-> out.response,
                                                read |-> bookings]]
                /\ pc' = [pc EXCEPT ![p] = "computed"]
                /\ res' = res
    /\ UNCHANGED <<arg, ret, cfg, etype, bookings, now, req, cacheA, cacheB, audit>>

\* Lines 59-67: _cache_availability (update_or_create with is_dirty=False) and
\* the return of the result
GetAvailableSlotsWrite(p) ==
    /\ pc[p] = "computed"
    /\ cacheB' = AC__cache_availability(etype, call[p].request, call[p].response.slots)
    /\ res' = call[p].response
    /\ pc' = [pc EXCEPT ![p] = "done"]
    /\ UNCHANGED <<arg, ret, cfg, etype, bookings, now, req, cacheA, call, audit>>

NextRace ==
    \/ \E p \in Callers : GetAvailableSlotsRead(p) \/ GetAvailableSlotsWrite(p)
    \/ CreateBookingWithValidation
    \/ HandleBookingCancellation

SpecRace == InitCache /\ [][NextRace]_vars

-----------------------------------------------------------------------------
(* Library functions of apps/availability/utils.py exercised on their own  *)

\* The rest of the system stands still while a library function runs
Quiescent ==
    /\ cfg = Config(UTC, {}, {}, {})
    /\ etype = BaseEventType
    /\ bookings = {}
    /\ req = Request(<<Today, Today>>, 1)
    /\ now = StartOfBusiness
    /\ cacheA = {}
    /\ cacheB = {}
    /\ res = NoResponse
    /\ pc = [p \in Callers |-> "idle"]
    /\ call = [p \in Callers |-> NoCall]
    /\ audit = 0

NoReturn == [called |-> FALSE, value |-> <<>>]

\* Longest slot list handed to a library function
MaxSlots == 3

\* Organizer slots of one day, as <<hour, minute, duration>> in UTC
SlotTimes ==
    {<<6, 30, 30>>, <<12, 0, 30>>, <<12, 30, 30>>, <<13, 0, 60>>, <<20, 30, 30>>,
     <<21, 30, 30>>, <<22, 15, 30>>, <<23, 45, 30>>}

SlotAt(x) ==
    [start_time |-> At(Today, x[1], x[2]),
     end_time |-> At(Today, x[1], x[2]) + Minutes(x[3]),
     duration_minutes |-> x[3], available_spots |-> 1]

\* The time-ascending slot lists of at most MaxSlots slots
OrganizerSlotLists ==
    {SortByStart(SetToSeq({SlotAt(x) : x \in c})) :
        c \in {c \in SUBSET SlotTimes : Cardinality(c) <= MaxSlots}}

InviteeZoneLists ==
    {<<"UTC">>, <<"UTC", "UTC">>, <<"UTC", "Europe/Berlin">>,
     <<"UTC", "America/New_York">>, <<"Europe/Berlin", "Asia/Tokyo">>,
     <<"UTC", "Mars/Phobos">>}

\* reasonable_hours_start, reasonable_hours_end: the defaults and a profile's own
ReasonableHours == {<<7, 22>>, <<9, 17>>}

InitMulti ==
    /\ Quiescent
    /\ \E organizer_slots \in OrganizerSlotLists, invitee_timezones \in InviteeZoneLists,
          hours \in ReasonableHours :
           arg = [organizer_slots |-> organizer_slots,
                  invitee_timezones |-> invitee_timezones,
                  reasonable_start_hour |-> hours[1],
                  reasonable_end_hour |-> hours[2]]
    /\ ret = NoReturn

CalculateMultiInviteeIntersection ==
    /\ ~ret.called
    /\ ret' = [called |-> TRUE,
               value |-> calculate_multi_invitee_intersection(
                             arg.organizer_slots, arg.invitee_timezones,
                             arg.reasonable_start_hour, arg.reasonable_end_hour)]
    /\ UNCHANGED <<arg, cfg, etype, bookings, now, req, cacheA, cacheB, res, pc, call,
                   audit>>

NextMulti == CalculateMultiInviteeIntersection

SpecMulti == InitMulti /\ [][NextMulti]_vars

\* merge_overlapping_slots and _merge_and_deduplicate_slots, applied once and twice.
\* Slots of a morning as <<start, end, available_spots>>, in minutes after 09:00
MergeSlotTimes ==
    {<<0, 30, 1>>, <<0, 45, 3>>, <<10, 20, 2>>, <<30, 60, 2>>, <<33, 50, 1>>,
     <<65, 95, 3>>, <<96, 110, 1>>, <<120, 150, 2>>}

MergeSlotAt(x) ==
    [start_time |-> At(Today, 9, 0) + Minutes(x[1]),
     end_time |-> At(Today, 9, 0) + Minutes(x[2]),
     duration_minutes |-> x[2] - x[1], available_spots |-> x[3]]

\* The slot lists of at most MaxSlots slots, in any order
MergeInputs ==
    UNION {[1..n -> {MergeSlotAt(x) : x \in MergeSlotTimes}] : n \in 0..MaxSlots}

InitMerge ==
    /\ Quiescent
    /\ arg \in MergeInputs
    /\ ret = NoReturn

MergeOverlappingSlots ==
    /\ ~ret.called
    /\ ret' = [called |-> TRUE, function |-> "merge_overlapping_slots",
               value |-> merge_overlapping_slots(arg),
               again |-> merge_overlapping_slots(merge_overlapping_slots(arg))]
    /\ UNCHANGED <<arg, cfg, etype, bookings, now, req, cacheA, cacheB, res, pc, call,
                   audit>>

MergeAndDeduplicateSlots ==
    /\ ~ret.called
    /\ ret' = [called |-> TRUE, function |-> "_merge_and_deduplicate_slots",
               value |-> AC__merge_and_deduplicate_slots(arg),
               again |-> AC__merge_and_deduplicate_slots(
                             AC__merge_and_deduplicate_slots(arg))]
    /\ UNCHANGED <<arg, cfg, etype, bookings, now, req, cacheA, cacheB, res, pc, call,
                   audit>>

NextMerge == MergeOverlappingSlots \/ MergeAndDeduplicateSlots

SpecMerge == InitMerge /\ [][NextMerge]_vars

-----------------------------------------------------------------------------
(* apps/integrations/utils.py: check_rate_limit, record_api_call and       *)
(* make_api_request under its @retry decorator.  arg holds the call's      *)
(* provider and organizer_id; ret holds the progress of the call and the   *)
(* rate-limit counter kept in the cache under rate_limit_key.              *)

\* limits.get(provider, 50) with the settings left at their defaults
RateLimitGoogle == 100
RateLimitDefault == 50
rate_limit_of(provider) ==
    IF provider = "google" THEN RateLimitGoogle ELSE RateLimitDefault

\* A check that lets the call through when the count equals the limit
check_rate_limit_above_only(provider, current_count) ==
    IF current_count > rate_limit_of(provider) THEN "RateLimitError" ELSE "True"

\* check_rate_limit: True, or the exception it raises
check_rate_limit(provider, current_count) ==
    IF current_count >= rate_limit_of(provider) THEN "RateLimitError" ELSE "True"

\* record_api_call: the counter after one more call
record_api_call(current_count) == current_count + 1

\* stop=stop_after_attempt(3)
StopAfterAttempt == 3

\* What requests.request does: an HTTP status, or an exception of requests
HttpOutcomes == {"200", "401", "403", "429", "500", "Timeout", "RequestException"}

\* The body of make_api_request after the response arrived: what it raises, or
\* "return"
handle_response(outcome) ==
    CASE outcome = "200" -> "return"
      [] outcome = "401" -> "TokenExpiredError"
      [] outcome = "403" -> "IntegrationError"
      [] outcome = "429" -> "RateLimitError"
      [] outcome = "500" -> "IntegrationError"
      [] outcome = "Timeout" -> "IntegrationError"
      [] outcome = "RequestException" -> "RequestException"

\* retry=retry_if_exception_type((RateLimitError, RequestException))
retry_if_exception_type(exception) == exception \in {"RateLimitError", "RequestException"}

\* The decorator after an attempt that ended with result: the call's outcome, or
\* "running" when another attempt follows.  Without reraise=True the decorator
\* raises RetryError once the attempts are used up.
retry_outcome(attempt_number, result) ==
    IF result = "return" THEN "returned"
    ELSE IF ~retry_if_exception_type(result) THEN result
    ELSE IF attempt_number >= StopAfterAttempt THEN "RetryError"
    ELSE "running"

\* Counter values of the provider's window when the call starts
InitialCounts ==
    {0, RateLimitDefault - 1, RateLimitDefault, RateLimitGoogle - 2, RateLimitGoogle - 1,
     RateLimitGoogle, RateLimitGoogle + 50}

InitApi ==
    /\ Quiescent
    /\ arg \in [provider : {"", "google", "zoho"}, organizer_id : {0, 7}]
    /\ \E c \in InitialCounts :
        ret = [attempt_number |-> 0, requests |-> 0, responses |-> <<>>,
               current_count |-> c, last |-> "", outcome |-> "running"]

\* One attempt of make_api_request and the decorator's decision after it
MakeApiRequestAttempt ==
    /\ ret.outcome = "running"
    /\ LET attempt_number == ret.attempt_number + 1
           limited == arg.provider # "" /\ arg.organizer_id # 0
       IN  IF limited /\ check_rate_limit(arg.provider, ret.current_count) # "True"
           THEN ret' = [ret EXCEPT !.attempt_number = attempt_number,
                                   !.last = "RateLimitError",
                                   !.outcome = retry_outcome(attempt_number,
                                                             "RateLimitError")]
           ELSE \E response \in HttpOutcomes :
                   ret' = [ret EXCEPT
                             !.attempt_number = attempt_number,
                             !.requests = ret.requests + 1,
                             !.responses = Append(ret.responses, response),
                             !.current_count =
                                 IF limited /\ response \notin {"Timeout", "RequestException"}
                                 THEN record_api_call(ret.current_count)
                                 ELSE ret.current_count,
                             !.last = handle_response(response),
                             !.outcome = retry_outcome(attempt_number,
                                                       handle_response(response))]
    /\ UNCHANGED <<arg, cfg, etype, bookings, now, req, cacheA, cacheB, res, pc, call,
                   audit>>

\* The counter's cache entry (timeout=60) runs out while the decorator waits
RateWindowExpires ==
    /\ ret.outcome = "running"
    /\ ret.attempt_number > 0
    /\ ret.current_count > 0
    /\ ret' = [ret EXCEPT !.current_count = 0]
    /\ UNCHANGED <<arg, cfg, etype, bookings, now, req, cacheA, cacheB, res, pc, call,
                   audit>>

NextApi == MakeApiRequestAttempt \/ RateWindowExpires

SpecApi == InitApi /\ [][NextApi]_vars

-----------------------------------------------------------------------------
(* The while loop of _generate_slots_for_time_range, one pass at a time,   *)
(* in both engines.  arg holds the window the loop is given, ret the loop  *)
(* variables current_slot_start and slots and whether the loop still runs. *)

\* Windows of one date handed to the loop: a rule's window, a window shorter
\* than the event, part 1 of a midnight-spanning window
LoopWindows ==
    {<<TimeOfDay(9, 0), TimeOfDay(11, 0)>>, <<TimeOfDay(10, 0), TimeOfDay(10, 15)>>,
     <<TimeOfDay(23, 0), EndOfDaySentinel>>}

\* Slot intervals of one minute and more, set on the event type or (0) left to
\* the organizer's BufferTime, against blocks, bookings, gaps, notice and horizon
LoopScenarios ==
    {[cfg |-> [Config(UTC, {RuleMorning}, {}, blocked) EXCEPT
                  !.buffer_settings.minimum_gap = gap],
      etype |-> [BaseEventType EXCEPT !.slot_interval_minutes = i,
                                      !.min_scheduling_notice = nh[1],
                                      !.max_scheduling_horizon = nh[2]],
      bookings |-> bk,
      req |-> Request(<<Today, Today>>, 1)] :
        blocked \in SUBSET {BlockTen}, gap \in {0, 20}, i \in {0, 1, 15, 45},
        nh \in {<<0, 10080>>, <<60, 10080>>, <<0, 90>>},
        bk \in {{}, {BookSame(0)}}}

InitLoop ==
    /\ \E s \in LoopScenarios :
        /\ cfg = s.cfg
        /\ etype = s.etype
        /\ bookings = s.bookings
        /\ req = s.req
    /\ now = StartOfBusiness
    /\ cacheA = {}
    /\ cacheB = {}
    /\ res = NoResponse
    /\ pc = [p \in Callers |-> "idle"]
    /\ call = [p \in Callers |-> NoCall]
    /\ audit = 0
    /\ \E engine \in {"A", "B"}, w \in LoopWindows :
        /\ arg = [engine |-> engine,
                  range_start_utc |-> combine_utc(cfg.tz, Today, w[1]),
                  range_end_utc |-> combine_utc(cfg.tz, Today, w[2])]
        /\ ret = [running |-> TRUE, current_slot_start |-> arg.range_start_utc,
                  slots |-> <<>>]

\* The loop of calculate_available_slots' _generate_slots_for_time_range
SlotLoopIteration ==
    /\ arg.engine = "A"
    /\ ret.running
    /\ LET it == _slot_loop_iteration(ret.current_slot_start, arg.range_end_utc,
                                      _querysets(req))
       IN  ret' = [running |-> it.running, current_slot_start |-> it.current_slot_start,
                   slots |-> ret.slots \o it.slots]
    /\ UNCHANGED <<arg, cfg, etype, bookings, now, req, cacheA, cacheB, res, pc, call,
                   audit>>

\* The loop of AvailabilityCalculator._generate_slots_for_time_range
AC_SlotLoopIteration ==
    /\ arg.engine = "B"
    /\ ret.running
    /\ LET it == AC__slot_loop_iteration(ret.current_slot_start, arg.range_end_utc,
                                         etype, req.attendee_count)
       IN  ret' = [running |-> it.running, current_slot_start |-> it.current_slot_start,
                   slots |-> ret.slots \o it.slots]
    /\ UNCHANGED <<arg, cfg, etype, bookings, now, req, cacheA, cacheB, res, pc, call,
                   audit>>

NextLoop == SlotLoopIteration \/ AC_SlotLoopIteration

\* A loop that can make another pass makes it
SpecLoop == InitLoop /\ [][NextLoop]_vars /\ WF_vars(NextLoop)

-----------------------------------------------------------------------------
(* apps/integrations/utils.py: make_api_request run by concurrent callers  *)
(* for one provider and organizer inside one rate-limit window.  Each      *)
(* cache.get and cache.set is one step; nothing makes a get and the set    *)
(* that follows it atomic.  ret holds the cache entry under rate_limit_key *)
(* and counts what happened; call[p] holds caller p's local current_count. *)

\* cache.set(cache_key, current_count + 1, timeout=60)
RateWindowSeconds == 60

\* Counter values of the window when the callers arrive
WindowCounts ==
    {0, 10, RateLimitDefault - 2, RateLimitDefault - 1, RateLimitDefault,
     RateLimitGoogle - 2, RateLimitGoogle - 1, RateLimitGoogle}

InitWindow ==
    /\ cfg = Config(UTC, {}, {}, {})
    /\ etype = BaseEventType
    /\ bookings = {}
    /\ req = Request(<<Today, Today>>, 1)
    /\ now = StartOfBusiness
    /\ cacheA = {}
    /\ cacheB = {}
    /\ res = NoResponse
    /\ pc = [p \in Callers |-> "idle"]
    /\ call = [p \in Callers |-> [current_count |-> 0]]
    /\ audit = 0
    /\ \E provider \in {"google", "zoho"}, c \in WindowCounts :
        /\ arg = [provider |-> provider, organizer_id |-> 7, initial_count |-> c]
        /\ ret = [current_count |-> c, timeout |-> RateWindowSeconds, sent |-> 0,
                  recorded |-> 0]

\* make_api_request, lines 90-91: check_rate_limit reads the counter and raises
\* or lets the call go on
CheckRateLimit(p) ==
    /\ pc[p] = "idle"
    /\ pc' = [pc EXCEPT ![p] =
                  IF check_rate_limit(arg.provider, ret.current_count) = "True"
                  THEN "checked" ELSE "RateLimitError"]
    /\ UNCHANGED <<arg, ret, cfg, etype, bookings, now, req, cacheA, cacheB, res, call,
                   audit>>

\* Lines 93-101: the HTTP request is sent and answered
SendRequest(p) ==
    /\ pc[p] = "checked"
    /\ ret' = [ret EXCEPT !.sent = ret.sent + 1]
    /\ pc' = [pc EXCEPT ![p] = "answered"]
    /\ UNCHANGED <<arg, cfg, etype, bookings, now, req, cacheA, cacheB, res, call, audit>>

\* record_api_call, line 60: current_count = cache.get(cache_key, 0)
RecordApiCallGet(p) ==
    /\ pc[p] = "answered"
    /\ call' = [call EXCEPT ![p].current_count = ret.current_count]
    /\ pc' = [pc EXCEPT ![p] = "read"]
    /\ UNCHANGED <<arg, ret, cfg, etype, bookings, now, req, cacheA, cacheB, res, audit>>

\* record_api_call, line 61: cache.set(cache_key, current_count + 1, timeout=60)
RecordApiCallSet(p) ==
    /\ pc[p] = "read"
    /\ ret' = [ret EXCEPT !.current_count = record_api_call(call[p].current_count),
                          !.timeout = RateWindowSeconds,
                          !.recorded = ret.recorded + 1]
    /\ pc' = [pc EXCEPT ![p] = "recorded"]
    /\ UNCHANGED <<arg, cfg, etype, bookings, now, req, cacheA, cacheB, res, call, audit>>

NextWindow ==
    \E p \in Callers :
        \/ CheckRateLimit(p)
        \/ SendRequest(p)
        \/ RecordApiCallGet(p)
        \/ RecordApiCallSet(p)

SpecWindow == InitWindow /\ [][NextWindow]_vars

-----------------------------------------------------------------------------
(* apps/events/utils.py: invalidate_availability_cache run on a cache      *)
(* table that holds rows of two organizers.  arg is the table and the      *)
(* call's arguments, ret the table after the call.                         *)

Organizers == {1, 2}

\* date=None
NoDate == -1

\* A cache row of an organizer and a date, clean or dirty, empty or not
TableRow(organizer, date, dirty, filled) ==
    [organizer |-> organizer, event_type |-> 1, date |-> date, timezone_name |-> "UTC",
     attendee_count |-> 1,
     available_slots |-> IF filled THEN <<SlotAt(<<12, 0, 30>>)>> ELSE <<>>,
     expires_at |-> StartOfBusiness + (IF filled THEN CacheTtlB ELSE 0),
     is_dirty |-> dirty]

\* For each organizer and date: no row, or one of the four rows
RowChoices(organizer, date) ==
    {{}} \cup {{TableRow(organizer, date, dirty, filled)} :
                  dirty \in BOOLEAN, filled \in BOOLEAN}

CacheTables ==
    {a \cup b \cup c \cup d :
        a \in RowChoices(1, Today), b \in RowChoices(1, Today + 1),
        c \in RowChoices(2, Today), d \in RowChoices(2, Today + 1)}

InitInvalidate ==
    /\ Quiescent
    /\ \E table \in CacheTables, organizer \in Organizers,
          date \in {NoDate, Today, Today + 1} :
            arg = [table |-> table, organizer |-> organizer, date |-> date]
    /\ ret = NoReturn

\* invalidate_availability_cache(organizer, date): the queryset is the
\* organizer's rows; the rest of the table is not part of it
InvalidateAvailabilityCache ==
    /\ ~ret.called
    /\ LET queryset == {e \in arg.table : e.organizer = arg.organizer}
       IN  ret' = [called |-> TRUE,
                   value |-> (arg.table \ queryset) \cup
                             (IF arg.date = NoDate
                              THEN invalidate_all_availability_cache(queryset)
                              ELSE invalidate_availability_cache(queryset, arg.date))]
    /\ UNCHANGED <<arg, cfg, etype, bookings, now, req, cacheA, cacheB, res, pc, call,
                   audit>>

NextInvalidate == InvalidateAvailabilityCache

SpecInvalidate == InitInvalidate /\ [][NextInvalidate]_vars

-----------------------------------------------------------------------------
(* apps/events/utils.py: handle_booking_rescheduling of a confirmed        *)
(* booking of the one-to-one event type, followed by availability requests *)
(* and by create_booking_with_validation calls of other invitees.  ret     *)
(* holds what the rescheduling call returned and the interval it wrote.    *)

\* The booking an invitee holds before rescheduling it
BookLate ==
    [id |-> 1, event_type |-> 1, start_time |-> At(Today, 10, 30),
     end_time |-> At(Today, 11, 0), status |-> "confirmed", attendees |-> 0,
     attendee_count |-> 1]

\* Booking.can_be_rescheduled(): a confirmed booking that has not started
can_be_rescheduled(booking) == booking.status = "confirmed" /\ booking.start_time > now

InitReschedule ==
    /\ cfg = Config(UTC, {RuleMorning}, {}, {})
    /\ etype = [BaseEventType EXCEPT !.slot_interval_minutes = 15]
    /\ bookings = {BookLate, BookCancelled}
    /\ req \in {Request(<<Today, Today>>, 1), Request(<<Today, Today + 1>>, 1)}
    /\ now = StartOfBusiness
    /\ cacheA = {}
    /\ cacheB = {}
    /\ res = NoResponse
    /\ pc = [p \in Callers |-> "idle"]
    /\ call = [p \in Callers |-> NoCall]
    /\ audit = 0
    /\ arg = <<>>
    /\ ret = NoReturn

\* handle_booking_rescheduling(booking, new_start_time): the guard, the check of
\* the new slot, the update of the row (post_save: invalidate_cache_on_booking_change),
\* the audit log row and the invalidation of the old and the new date
HandleBookingRescheduling ==
    /\ ~ret.called
    /\ \E booking \in bookings, new_start_time \in StartChoices :
        LET new_end_time == new_start_time + Minutes(event_type_of(booking).duration)
            updated == [booking EXCEPT !.start_time = new_start_time,
                                       !.end_time = new_end_time,
                                       !.status = "rescheduled"]
        IN  IF ~can_be_rescheduled(booking)
            THEN /\ ret' = [called |-> TRUE,
                            value |-> [success |-> FALSE,
                                       errors |-> <<"Booking cannot be rescheduled at this time">>,
                                       booking |-> booking]]
                 /\ UNCHANGED <<bookings, cacheB, audit>>
            ELSE IF ~AC__is_slot_available(event_type_of(booking), new_start_time,
                        new_end_time, booking.attendee_count,
                        Minutes(event_type_of(booking).buffer_time_before),
                        Minutes(event_type_of(booking).buffer_time_after))
            THEN /\ ret' = [called |-> TRUE,
                            value |-> [success |-> FALSE,
                                       errors |-> <<"New time slot is not available">>,
                                       booking |-> booking]]
                 /\ UNCHANGED <<bookings, cacheB, audit>>
            ELSE /\ bookings' = (bookings \ {booking}) \cup {updated}
                 /\ audit' = audit + 1
                 /\ cacheB' = invalidate_availability_cache(
                                  invalidate_availability_cache(
                                      invalidate_cache_on_booking_change(cacheB, updated),
                                      utc_date(booking.start_time)),
                                  utc_date(new_start_time))
                 /\ ret' = [called |-> TRUE,
                            value |-> [success |-> TRUE, errors |-> <<>>,
                                       booking |-> updated]]
    /\ UNCHANGED <<arg, cfg, etype, now, req, cacheA, res, pc, call>>

\* The caller of create_booking_with_validation in these behaviours
OtherInvitee == CHOOSE p \in Callers : TRUE

NextReschedule ==
    \/ HandleBookingRescheduling
    \/ CalculateAvailableSlots
    \/ GetAvailableSlots
    \/ CheckSlot(OtherInvitee)
    \/ LookupGroupBooking(OtherInvitee)
    \/ CreateBooking(OtherInvitee)

SpecReschedule == InitReschedule /\ [][NextReschedule]_vars

-----------------------------------------------------------------------------
(* Properties                                                              *)

Overlaps(s1, e1, s2, e2) == s1 < e2 /\ e1 > s2

\* The booking's interval widened by the buffers of the booking's own event type
BufferedStart(b) == b.start_time - Minutes(event_type_of(b).buffer_time_before)
BufferedEnd(b) == b.end_time + Minutes(event_type_of(b).buffer_time_after)

Answered == res.engine \in {"A", "B"}
Computed == Answered /\ ~res.cache_hit

\* The candidate [s, e) was emitted by the slot generator of the last response
InGenerated(s, e) ==
    \E i \in 1..Len(res.generated) :
        res.generated[i].start_time = s /\ res.generated[i].end_time = e

SameGroupSession(S, b) ==
    /\ is_group_event(etype)
    /\ b.event_type = etype.id
    /\ S.start_time = b.start_time
    /\ S.end_time = b.end_time

\* The candidate starts the generator visits in the UTC window [lo, hi]
GridStarts(lo, hi) ==
    {s \in {lo + k * slot_interval_of(etype, cfg.buffer_settings) :
                k \in 0..((hi - lo) \div slot_interval_of(etype, cfg.buffer_settings))} :
        s + Minutes(etype.duration) <= hi}

\* The candidate starts of the requested dates' same-day rules that pass the
\* notice and horizon tests of the last response
RuleCandidates ==
    UNION {GridStarts(combine_utc(cfg.tz, d, r.start_time),
                      combine_utc(cfg.tz, d, r.end_time)) :
             <<d, r>> \in {x \in (req.start_date..req.end_date) \X cfg.availability_rules :
                              /\ x[2].day_of_week = weekday(x[1])
                              /\ ~spans_midnight(x[2])}}

WithinNoticeAndHorizon(s) ==
    /\ s >= res.at + Minutes(etype.min_scheduling_notice)
    /\ s <= res.at + Minutes(etype.max_scheduling_horizon)

\* C1: for a non-group event type, of two finished create_booking_with_validation
\* calls whose requested intervals overlap, at most one created a booking; the
\* other returned no booking and the "no longer available" error.
C1_AtMostOneOverlappingBooking ==
    ~is_group_event(etype) =>
        \A p, q \in Callers :
            ( /\ p # q
              /\ pc[p] = "done" /\ pc[q] = "done"
              /\ Overlaps(call[p].start_time, RequestedEnd(call[p]),
                          call[q].start_time, RequestedEnd(call[q])) )
            => \/ (call[p].booking = 0 /\ ~call[p].created /\ call[p].errors = <<NotAvailable>>)
               \/ (call[q].booking = 0 /\ ~call[q].created /\ call[q].errors = <<NotAvailable>>)

\* C2: for a group event type there is never more than one confirmed booking for
\* one session (event type, start, end), and the confirmed attendees of a session
\* never exceed max_attendees.
C2_OneSessionWithinCapacity ==
    is_group_event(etype) =>
        \A b \in Confirmed(bookings) :
            b.event_type = etype.id =>
                /\ \A o \in Confirmed(bookings) :
                       ( /\ o.event_type = b.event_type
                         /\ o.start_time = b.start_time
                         /\ o.end_time = b.end_time ) => o.id = b.id
                /\ confirmed_attendees(b) <= etype.max_attendees

\* C3: buffer respect: every slot S of a response and every confirmed booking B
\* satisfy S.start >= B.end + buffer_after(B) or S.end <= B.start - buffer_before(B),
\* unless S and B are the same group session.
C3_BufferRespect ==
    Answered =>
        \A i \in 1..Len(res.slots) : \A b \in Confirmed(bookings) :
            \/ res.slots[i].start_time >= BufferedEnd(b)
            \/ res.slots[i].end_time <= BufferedStart(b)
            \/ SameGroupSession(res.slots[i], b)

\* C4: no two slots of a response overlap.
C4_NoOverlap ==
    Answered =>
        \A i, j \in 1..Len(res.slots) :
            i < j => \/ res.slots[i].end_time <= res.slots[j].start_time
                     \/ res.slots[j].end_time <= res.slots[i].start_time

\* C5: every slot S of a response returned at time t satisfies
\* t + min_scheduling_notice <= S.start <= t + max_scheduling_horizon.
C5_NoticeAndHorizon ==
    Answered =>
        \A i \in 1..Len(res.slots) : WithinNoticeAndHorizon(res.slots[i].start_time)

\* C6: when an override with is_available = false applies to date D, no slot of a
\* response starts on D in the organizer's zone.
C6_ClosedDayHasNoSlots ==
    Answered =>
        \A o \in cfg.date_overrides :
            ~o.is_available =>
                \A i \in 1..Len(res.slots) :
                    local_date(cfg.tz, res.slots[i].start_time) # o.date

\* C7: when an override with is_available = true and times applies to a requested
\* date D, the slots of D come from the override's window only: each lies inside
\* the window, and the window is used (its first candidate, free here, is offered)
\* whether or not a rule exists for D's weekday.
C7_OverrideWindowOnly ==
    Computed =>
        \A o \in cfg.date_overrides :
            (o.is_available /\ o.has_times /\ o.date \in req.start_date..req.end_date) =>
                LET lo == combine_utc(cfg.tz, o.date, o.start_time)
                    hi == combine_utc(cfg.tz, o.date, o.end_time)
                    onD == {S \in Range(res.slots) :
                               local_date(cfg.tz, S.start_time) = o.date}
                IN  /\ \A S \in onD : lo <= S.start_time /\ S.end_time <= hi
                    /\ ( /\ cfg.blocked_times = {} /\ Confirmed(bookings) = {}
                         /\ WithinNoticeAndHorizon(lo)
                         /\ lo + Minutes(etype.duration) <= hi )
                       => \E S \in onD : S.start_time = lo

\* C8: a candidate [s, e) is blocked by a BlockedTime b exactly when b.start < e
\* and b.end > s, on the candidate's own interval: with no bookings, a candidate
\* of a rule's window is emitted if and only if no block overlaps it.
C8_BlockedExactlyOnOverlap ==
    (Computed /\ Confirmed(bookings) = {} /\ cfg.date_overrides = {}) =>
        \A s \in RuleCandidates :
            WithinNoticeAndHorizon(s) =>
                ( InGenerated(s, s + Minutes(etype.duration))
                  <=> ~\E b \in cfg.blocked_times :
                          b.start_datetime < s + Minutes(etype.duration)
                          /\ b.end_datetime > s )

\* C9: for a group event type, the candidate with the start and end of a confirmed
\* booking of that event type is offered if and only if
\* current_confirmed_attendees + attendee_count <= max_attendees, whatever the
\* buffers of the event type (no other booking is near it).
C9_GroupCapacity ==
    (Computed /\ is_group_event(etype)) =>
        \A b \in Confirmed(bookings) :
            ( /\ b.event_type = etype.id
              /\ b.start_time \in RuleCandidates
              /\ b.end_time = b.start_time + Minutes(etype.duration)
              /\ \A o \in Confirmed(bookings) \ {b} :
                     ~Overlaps(BufferedStart(b), BufferedEnd(b),
                               BufferedStart(o), BufferedEnd(o)) )
            => ( InGenerated(b.start_time, b.end_time)
                 <=> confirmed_attendees(b) + req.attendee_count <= etype.max_attendees )

\* C10: a candidate that overlaps the buffered interval of a confirmed booking and
\* does not have exactly that booking's start and end is never offered.
C10_OtherOverlapIsConflict ==
    Computed =>
        \A i \in 1..Len(res.generated) : \A b \in Confirmed(bookings) :
            Overlaps(res.generated[i].start_time, res.generated[i].end_time,
                     BufferedStart(b), BufferedEnd(b))
            => ( /\ res.generated[i].start_time = b.start_time
                 /\ res.generated[i].end_time = b.end_time )

\* C11: with one rule 09:00-17:00 on the requested day, duration 30, interval 30,
\* no buffers, blocks or bookings and a UTC organizer, the result for that day is
\* exactly the 16 slots of 30 minutes starting at 09:00, 09:30, ..., 16:30 UTC.
C11_SixteenHalfHourSlots ==
    ( /\ Answered
      /\ cfg = Config(UTC, {RuleDay}, {}, {})
      /\ etype = BaseEventType
      /\ bookings = {}
      /\ req = Request(<<Today, Today>>, 1) )
    => /\ Len(res.slots) = 16
       /\ \A i \in 1..Len(res.slots) :
              /\ res.slots[i].start_time = At(Today, 9, 0) + (i - 1) * Minutes(30)
              /\ res.slots[i].end_time = res.slots[i].start_time + Minutes(30)
              /\ res.slots[i].duration_minutes = 30

\* Seconds since local midnight of t in the zone
local_time_of_day(tz, t) == (t + utcoffset(tz, t)) % 86400

\* C12: every slot returned by calculate_multi_invitee_intersection for two or
\* more invitee zones has, in every invitee zone, its local start and its local
\* end inside [reasonable_start_hour:00, reasonable_end_hour:00) and on the same
\* local date.
C12_ReasonableForEveryInvitee ==
    (ret.called /\ Len(arg.invitee_timezones) >= 2) =>
        \A i \in 1..Len(ret.value) : \A k \in 1..Len(arg.invitee_timezones) :
            /\ arg.invitee_timezones[k] \in ValidZones
            /\ LET tz == ZoneInfo(arg.invitee_timezones[k])
                   lo == Hours(arg.reasonable_start_hour)
                   hi == Hours(arg.reasonable_end_hour)
                   S == ret.value[i]
               IN  /\ lo <= local_time_of_day(tz, S.start_time)
                   /\ local_time_of_day(tz, S.start_time) < hi
                   /\ lo <= local_time_of_day(tz, S.end_time)
                   /\ local_time_of_day(tz, S.end_time) < hi
                   /\ local_date(tz, S.start_time) = local_date(tz, S.end_time)

\* C13: the list returned by calculate_multi_invitee_intersection for two or more
\* invitee zones is sorted non-increasing by fairness_score, and slots of equal
\* score keep their input, time-ascending, order.
C13_FairnessOrder ==
    (ret.called /\ Len(arg.invitee_timezones) >= 2) =>
        \A i, j \in 1..Len(ret.value) :
            i < j =>
                /\ ret.value[i].fairness_score >= ret.value[j].fairness_score
                /\ ret.value[i].fairness_score = ret.value[j].fairness_score
                       => ret.value[i].start_time < ret.value[j].start_time

\* C13 witness: a returned list of three slots with a tie and with a later slot
\* ranked before an earlier one
C13_Witness ==
    /\ ret.called /\ Len(arg.invitee_timezones) >= 2
    /\ Len(ret.value) = 3
    /\ \E i, j \in 1..3 : i < j /\ ret.value[i].fairness_score = ret.value[j].fairness_score
    /\ \E i, j \in 1..3 : i < j /\ ret.value[i].start_time > ret.value[j].start_time

\* C14: no slot in the result of calculate_available_slots has a different DST
\* offset at its start than at its end in the organizer's zone.
C14_DstExclusion ==
    res.engine = "A" =>
        \A i \in 1..Len(res.slots) :
            dst(cfg.tz, res.slots[i].start_time) = dst(cfg.tz, res.slots[i].end_time)

\* C14 witness: calculate_available_slots generated candidates around the
\* transition, dropped the block that contains it and returned the later slots
C14_Witness ==
    /\ res.engine = "A" /\ ~res.cache_hit
    /\ \E i \in 1..Len(res.generated) :
           dst(cfg.tz, res.generated[i].start_time) # dst(cfg.tz, res.generated[i].end_time)
    /\ \E i \in 1..Len(res.generated) :
           /\ dst(cfg.tz, res.generated[i].start_time) = dst(cfg.tz, res.generated[i].end_time)
           /\ \A j \in 1..Len(res.slots) :
                  ~ ( res.slots[j].start_time <= res.generated[i].start_time
                      /\ res.generated[i].end_time <= res.slots[j].end_time )
    /\ res.slots # <<>>

\* C15: merge idempotence: for every slot list L, merge(merge(L)) is merge(L),
\* slot by slot (start, end, duration_minutes, available_spots), for
\* merge_overlapping_slots and for _merge_and_deduplicate_slots.
C15_MergeIdempotent ==
    ret.called => ret.again = ret.value

\* C15 witness: merge_overlapping_slots merged an unsorted list down to two
\* slots, one of them widened by the merge
C15_Witness ==
    /\ ret.called /\ ret.function = "merge_overlapping_slots"
    /\ Len(arg) = 3 /\ Len(ret.value) = 2
    /\ arg[1].start_time > arg[2].start_time
    /\ \E i \in 1..2 : \A k \in 1..3 : ret.value[i] # arg[k]

\* The EventTypeAvailabilityCache rows with exactly the key of request r
RowsOfKey(r) ==
    {e \in cacheB :
        /\ r.start_date = r.end_date
        /\ e.event_type = etype.id
        /\ e.date = r.start_date
        /\ e.timezone_name = r.invitee_timezone
        /\ e.attendee_count = r.attendee_count}

\* A live Django cache entry for exactly r's key, whose key is not marked dirty
ValidEntryA(r) ==
    /\ \E e \in cacheA : e.key = cache_key(r) /\ now < e.expires
    /\ \A e \in RowsOfKey(r) : ~e.is_dirty

\* A clean, unexpired EventTypeAvailabilityCache row for exactly r's key
ValidEntryB(r) ==
    \E e \in RowsOfKey(r) : ~e.is_dirty /\ now < e.expires_at

\* The step left a response of the engine and nothing but the caches changed
AnsweredBy(engine) ==
    /\ res'.engine = engine
    /\ UNCHANGED <<req, now, bookings, etype>>

\* C16: a request is answered from the cache only if the entry for exactly its
\* key exists, is not dirty and has not expired (now < expires_at); without such
\* an entry the answer is not a hit.
C16_HitOnlyOnValidEntry ==
    [][ /\ (AnsweredBy("A") /\ CalculateAvailableSlots)
              => (res'.cache_hit => ValidEntryA(req))
        /\ (AnsweredBy("B") /\ GetAvailableSlots)
              => (res'.cache_hit <=> ValidEntryB(req)) ]_vars

\* C16 witness: get_available_slots answered from a clean row while another row
\* of the same date is dirty
C16_Witness ==
    /\ res.engine = "B" /\ res.cache_hit
    /\ \E e \in cacheB : e.is_dirty /\ e.date = req.start_date

\* What the next request r would be served from the caches
ServableA(r) ==
    cache_get(cache_key(r)) # {} /\ ~_is_cache_dirty(r.start_date, r.end_date)
ServableB(r) == AC__get_cached_availability(etype, r) # {}

\* The dates of the bookings a step created or changed
AffectedDates ==
    {utc_date(b.start_time) : b \in (bookings' \ bookings) \cup (bookings \ bookings')}

\* C17: once a mutation affecting date D is committed, no request for D can be
\* served from a payload computed before it: right after the mutation neither
\* cache holds a servable entry for a request covering D.
C17_NoStalePayloadAfterMutation ==
    [][ \A D \in AffectedDates : \A r \in CacheRequests :
            (r.start_date <= D /\ D <= r.end_date)
                => ~ServableA(r)' /\ ~ServableB(r)' ]_vars

\* The final re-check of caller p's arguments, evaluated on the current store
RecheckPasses(c) ==
    AC__is_slot_available(etype, c.start_time, RequestedEnd(c), c.attendee_count,
                          Minutes(etype.buffer_time_before),
                          Minutes(etype.buffer_time_after))

\* C18: when the final re-check of create_booking_with_validation fails, the
\* call returns (None, False, ['Selected time slot is no longer available']) and
\* writes nothing: no Booking, no Attendee, no audit-log row, then or later.
C18_FailedRecheckWritesNothing ==
    [][ \A p \in Callers :
          /\ (CheckSlot(p) /\ ~RecheckPasses(call'[p]))
                => /\ pc'[p] = "done"
                   /\ call'[p].booking = 0
                   /\ call'[p].created = FALSE
                   /\ call'[p].errors = <<NotAvailable>>
                   /\ bookings' = bookings
                   /\ audit' = audit
          /\ (pc[p] = "done" /\ call[p].errors # <<>>)
                => pc'[p] = "done" /\ call'[p] = call[p] ]_vars

\* C18 witness: a caller was turned away by the final re-check after another
\* caller's booking was written
C18_Witness ==
    \E p, q \in Callers :
        /\ pc[p] = "done" /\ call[p].errors = <<NotAvailable>>
        /\ pc[q] = "done" /\ call[q].created

\* C19: a request with a malformed invitee timezone is rejected with an error by
\* calculate_available_slots and by get_available_slots, whatever the rules and
\* bookings are: the response is never an error-free slot list.
C19_MalformedTimezoneRejected ==
    (Answered /\ ~validate_timezone(req.invitee_timezone)) => res.error # ""

\* C20: a request whose end_date is earlier than its start_date is rejected with
\* an error: the response is never a normal result such as an empty slot list.
C20_InvertedRangeRejected ==
    (Answered /\ req.end_date < req.start_date) => res.error # ""

\* The integrations whose fetch fails, and the events of those whose fetch succeeds
FailedIntegrations == {i \in cfg.calendar_integrations : i.fails}
FetchedEvents == UNION {i.events : i \in cfg.calendar_integrations \ FailedIntegrations}

\* C21: fail-open on external calendars: when the fetch from one integration
\* fails the computation still completes without error, a candidate is emitted
\* if it overlaps no event of the integrations that answered (an event of the
\* failed provider blocks nothing), and no candidate overlapping an event of an
\* integration that answered is emitted.
C21_FailOpenOnExternalCalendars ==
    (Computed /\ FailedIntegrations # {} /\ Confirmed(bookings) = {}
        /\ cfg.blocked_times = {} /\ cfg.date_overrides = {}) =>
        /\ res.error = ""
        /\ \A s \in RuleCandidates :
               WithinNoticeAndHorizon(s) =>
                   ( InGenerated(s, s + Minutes(etype.duration))
                     <=> ~\E busy \in FetchedEvents :
                             Overlaps(s, s + Minutes(etype.duration),
                                      busy.start_time, busy.end_time) )

\* C22: when a calendar provider fetch fails during calculate_available_slots,
\* the result carries an entry in its warnings list for that failure, and no error.
C22_ProviderFailureWarning ==
    (res.engine = "A" /\ Computed /\ FailedIntegrations # {}) =>
        /\ res.error = ""
        /\ Len(res.warnings) >= 1

\* C23: the cache is never a correctness dependency: when the cache read finds
\* no entry, a dirty or an expired entry, or fails with an error, the request
\* returns, without error, the slots of a full recomputation.
C23_CacheIsNeverADependency ==
    [][ /\ ( \/ (CalculateAvailableSlots /\ ~ValidEntryA(req))
             \/ CalculateAvailableSlotsCacheError )
           => (res'.error = "" /\ res'.slots = _compute_slots(req).slots)
        /\ ( \/ (GetAvailableSlots /\ ~ValidEntryB(req))
             \/ GetAvailableSlotsCacheError )
           => ( /\ res'.error = ""
                /\ res'.slots = AC__calculate_fresh_availability(etype, req.start_date,
                                    req.end_date, req.attendee_count).slots ) ]_vars

\* The confirmed bookings of the event type on the organizer-local date d
ConfirmedOnDate(d) ==
    {b \in Confirmed(bookings) :
        b.event_type = etype.id /\ local_date(cfg.tz, b.start_time) = d}

\* C24: daily booking limit: with max_bookings_per_day set, a request for a date
\* that already has that many confirmed bookings of the event type is turned
\* away by the final check, and after any sequence of
\* create_booking_with_validation calls no organizer-local date has more
\* confirmed bookings of the event type than the limit.
C24_DailyBookingLimit ==
    [][ etype.max_bookings_per_day > 0 =>
          /\ \A p \in Callers :
                ( /\ CheckSlot(p)
                  /\ Cardinality(ConfirmedOnDate(local_date(cfg.tz, call'[p].start_time)))
                         >= etype.max_bookings_per_day )
                => call'[p].errors = <<NotAvailable>>
          /\ \A b \in bookings' :
                Cardinality(ConfirmedOnDate(local_date(cfg.tz, b.start_time))')
                    <= etype.max_bookings_per_day ]_vars

\* The call has ended and every HTTP response it received was a 429
EveryResponse429 ==
    /\ ret.outcome # "running"
    /\ ret.responses # <<>>
    /\ \A i \in 1..Len(ret.responses) : ret.responses[i] = "429"
    /\ ret.requests = ret.attempt_number

\* C25: when every response is HTTP 429, make_api_request issues the initial
\* request plus 3 retries, 4 HTTP requests in total, and then raises
\* RateLimitError to its caller.
C25_FourRequestsThenRateLimitError ==
    EveryResponse429 => (ret.requests = 4 /\ ret.outcome = "RateLimitError")

\* C26: check_rate_limit returns True when the recorded count is below the
\* provider's limit (100 for google) and raises RateLimitError when it is at or
\* above it; an attempt of make_api_request made with a provider and an
\* organizer while the limit is reached sends no HTTP request.
C26_RateLimitGate ==
    [][ MakeApiRequestAttempt =>
          /\ check_rate_limit("google", ret.current_count)
                = (IF ret.current_count < 100 THEN "True" ELSE "RateLimitError")
          /\ ( /\ arg.provider # "" /\ arg.organizer_id # 0
               /\ ret.current_count >= (IF arg.provider = "google" THEN 100 ELSE 50) )
             => (ret'.requests = ret.requests /\ ret'.last = "RateLimitError")
          /\ ( /\ arg.provider # "" /\ arg.organizer_id # 0
               /\ ret.current_count < (IF arg.provider = "google" THEN 100 ELSE 50) )
             => ret'.requests = ret.requests + 1 ]_vars

\* C26 witness: a google call whose first two attempts were sent and whose third
\* was stopped by the counter reaching the limit
C26_Witness ==
    /\ arg.provider = "google" /\ arg.organizer_id # 0
    /\ ret.attempt_number = 3 /\ ret.requests = 2
    /\ ret.current_count = 100 /\ ret.last = "RateLimitError"

\* C27: saving the existing event type with a changed availability-affecting
\* field invalidates the organizer's cached availability: right after the save
\* no request can be served as a hit from an entry computed with the old value.
C27_EventTypeChangeInvalidates ==
    [][ SaveEventType =>
          \A r \in CacheRequests : ~ServableA(r)' /\ ~ServableB(r)' ]_vars

\* The row e is one the call is aimed at
Targeted(e) ==
    e.organizer = arg.organizer /\ (arg.date = NoDate \/ e.date = arg.date)

\* C28: invalidate_availability_cache(organizer, date) only sets is_dirty on the
\* rows of that organizer (and of that date when one is given): no row is
\* deleted, every row keeps its slot list and expiry, and rows of other
\* organizers or other dates are as they were.
C28_InvalidateOnlyMarksDirty ==
    ret.called =>
        /\ Cardinality(ret.value) = Cardinality(arg.table)
        /\ \A e \in arg.table :
              IF Targeted(e) THEN [e EXCEPT !.is_dirty = TRUE] \in ret.value
              ELSE e \in ret.value

\* C28 witness: a clean row of the organizer and date was marked while a clean
\* row of the other organizer on the same date stayed clean
C28_Witness ==
    /\ ret.called /\ arg.date # NoDate
    /\ \E e, f \in arg.table :
          /\ Targeted(e) /\ ~e.is_dirty /\ e.available_slots # <<>>
          /\ f.organizer # arg.organizer /\ f.date = arg.date /\ ~f.is_dirty
          /\ f \in ret.value

\* C29: a request whose start_date differs from its end_date is never answered
\* from the cache and never writes a cache entry: both caches are as they were
\* after it, and no entry of the Django cache is for a range of several days.
C29_OnlySingleDayCached ==
    [][ ( /\ req.start_date # req.end_date
          /\ \/ (AnsweredBy("A") /\ CalculateAvailableSlots)
             \/ (AnsweredBy("B") /\ GetAvailableSlots) )
        => ( /\ ~res'.cache_hit
             /\ cacheA' = cacheA
             /\ cacheB' = cacheB
             /\ \A e \in cacheA' : e.key[2] = e.key[3] ) ]_vars

\* C29 witness: a two-day answer (it has a slot on each day) was computed while
\* both caches held entries
C29_Witness ==
    /\ Computed /\ cacheA # {} /\ cacheB # {}
    /\ \E i, j \in 1..Len(res.slots) :
          /\ utc_date(res.slots[i].start_time) = Today
          /\ utc_date(res.slots[j].start_time) = Today + 1

\* C30: within one window, any two slots emitted by the slot generator start at
\* least max(slot_interval, minimum_gap) apart (one same-day rule and no override:
\* the slots generated for one date come from one window).
C30_MinimumGapBetweenSlots ==
    ( /\ Computed
      /\ Cardinality(cfg.availability_rules) = 1
      /\ cfg.date_overrides = {}
      /\ \A r \in cfg.availability_rules : ~spans_midnight(r) )
    => \A i, j \in 1..Len(res.generated) :
          ( /\ i # j
            /\ utc_date(res.generated[i].start_time) = utc_date(res.generated[j].start_time)
            /\ res.generated[i].start_time <= res.generated[j].start_time )
          => res.generated[j].start_time - res.generated[i].start_time
                >= Max(slot_interval_of(etype, cfg.buffer_settings),
                       Minutes(cfg.buffer_settings.minimum_gap))

\* C31: a candidate is blocked by an active midnight-spanning RecurringBlockedTime
\* whenever it overlaps either part of the block, from the block's start to
\* midnight on the block's weekday or from midnight to the block's end on the
\* following day, also when the candidate's organizer-local date is that
\* following day: no emitted candidate overlaps the block's interval.
C31_MidnightSpanningRecurringBlock ==
    Computed =>
        \A rb \in cfg.recurring_blocks :
            \A d \in (req.start_date - 1)..(req.end_date + 1) :
                (spans_midnight(rb) /\ applies_to_date(rb, d)) =>
                    \A i \in 1..Len(res.generated) :
                        ~Overlaps(res.generated[i].start_time, res.generated[i].end_time,
                                  combine_utc(cfg.tz, d, rb.start_time),
                                  combine_utc(cfg.tz, d + 1, rb.end_time))

\* The start times of the midnight-spanning windows in effect on date d: the
\* date's override when it has one, else the rules of d's weekday
SpanningWindowStarts(d) ==
    IF \E o \in cfg.date_overrides : o.date = d
    THEN {o.start_time : o \in {x \in cfg.date_overrides :
                                  /\ x.date = d /\ x.is_available /\ x.has_times
                                  /\ spans_midnight(x)}}
    ELSE {r.start_time : r \in {x \in cfg.availability_rules :
                                  x.day_of_week = weekday(d) /\ spans_midnight(x)}}

\* C32: for a midnight-spanning rule or override [start, end-next-day), the two
\* sub-windows leave no gap at midnight: with nothing blocking, every candidate
\* of the grid that starts at or after start and ends at or before local
\* midnight, the one ending exactly at midnight included, is emitted.
C32_NoGapAtMidnight ==
    ( /\ Computed /\ res.error = ""
      /\ Confirmed(bookings) = {} /\ cfg.blocked_times = {}
      /\ cfg.recurring_blocks = {} /\ cfg.calendar_integrations = {}
      /\ cfg.buffer_settings.minimum_gap = 0 )
    => \A d \in req.start_date..req.end_date :
           \A start \in SpanningWindowStarts(d) :
               \A s \in GridStarts(combine_utc(cfg.tz, d, start),
                                   combine_utc(cfg.tz, d + 1, 0)) :
                   WithinNoticeAndHorizon(s) =>
                       InGenerated(s, s + Minutes(etype.duration))


\* The slots of the input list that lie inside the merged slot v
MergedInto(v) ==
    {k \in 1..Len(arg) :
        arg[k].start_time >= v.start_time /\ arg[k].end_time <= v.end_time}

\* C33: when slots are merged, the merged slot's available_spots is the minimum
\* of the available_spots of the slots merged into it, in merge_overlapping_slots
\* and in _merge_and_deduplicate_slots.
C33_MergedSpotsAreMinimum ==
    ret.called =>
        \A i \in 1..Len(ret.value) :
            /\ MergedInto(ret.value[i]) # {}
            /\ \A k \in MergedInto(ret.value[i]) :
                   ret.value[i].available_spots <= arg[k].available_spots
            /\ \E k \in MergedInto(ret.value[i]) :
                   ret.value[i].available_spots = arg[k].available_spots

\* What a fresh calculation for request r returns on the current store
FreshSlots(r) ==
    AC__calculate_fresh_availability(etype, r.start_date, r.end_date, r.attendee_count).slots

\* C34: a clean, unexpired cache entry never holds a payload older than the
\* latest invalidation of its organizer and date: when the bookings changed (and
\* invalidate_availability_cache ran) between a computation's read and its cache
\* write, the write does not leave the entry clean with the pre-mutation slot list.
C34_NoStaleWriteAfterInvalidation ==
    [][ \A p \in Callers :
          ( /\ GetAvailableSlotsWrite(p)
            /\ call[p].read # bookings
            /\ call[p].response.slots # FreshSlots(call[p].request) )
          => \A e \in (RowsOfKey(call[p].request))' :
                 \/ e.is_dirty
                 \/ is_expired(e)
                 \/ e.available_slots # call[p].response.slots ]_vars

\* C35: after handle_booking_rescheduling succeeds, the booking's new interval
\* counts as occupied: create_booking_with_validation by another invitee for an
\* overlapping interval of the non-group event type is rejected by the final
\* check, and no availability computation offers a candidate that overlaps it.
C35_RescheduledIntervalIsOccupied ==
    [][ (ret.called /\ ret.value.success /\ ~is_group_event(etype)) =>
          /\ \A p \in Callers :
                ( /\ pc'[p] # pc[p]
                  /\ CheckSlot(p)
                  /\ Overlaps(call'[p].start_time, RequestedEnd(call'[p]),
                              ret.value.booking.start_time, ret.value.booking.end_time) )
                => call'[p].errors = <<NotAvailable>>
          /\ ( /\ CalculateAvailableSlots \/ GetAvailableSlots
               /\ ~res'.cache_hit )
             => \A i \in 1..Len(res'.generated) :
                    ~Overlaps(res'.generated[i].start_time, res'.generated[i].end_time,
                              ret.value.booking.start_time, ret.value.booking.end_time) ]_vars

\* The callers whose request for the session starting at t was accepted
AcceptedFor(t) ==
    {p \in Callers :
        /\ pc[p] = "done" /\ call[p].errors = <<>> /\ call[p].booking # 0
        /\ call[p].start_time = t}

\* The people those requests asked to admit
RECURSIVE SumAttendeeCount(_)
SumAttendeeCount(ps) ==
    IF ps = {} THEN 0
    ELSE LET p == CHOOSE q \in ps : TRUE
         IN  call[p].attendee_count + SumAttendeeCount(ps \ {p})

\* The confirmed bookings of the event type that start at t
SessionBookings(t) ==
    {b \in Confirmed(bookings) : b.event_type = etype.id /\ b.start_time = t}

\* C36: for a group session (one that began with no booking), after any
\* sequence of accepted create_booking_with_validation calls the sum of the
\* attendee_count values of the accepted requests never exceeds max_attendees,
\* and the attendee total the capacity check uses equals that sum.
C36_AdmittedWithinCapacity ==
    is_group_event(etype) =>
        \A t \in StartChoices :
            (\A b \in SessionBookings(t) :
                \E p \in Callers : call[p].created /\ call[p].booking = b.id)
            => /\ SumAttendeeCount(AcceptedFor(t)) <= etype.max_attendees
               /\ \A b \in SessionBookings(t) :
                      confirmed_attendees(b) = SumAttendeeCount(AcceptedFor(t))

\* C37: every slot emitted by calculate_available_slots for a request with
\* attendee_count = n has available_spots >= n and 0 <= available_spots <=
\* max_attendees: no slot is offered that cannot hold the requested attendees.
C37_SpotsCoverTheRequest ==
    (res.engine = "A" /\ Computed) =>
        \A i \in 1..Len(res.generated) :
            /\ res.generated[i].available_spots >= req.attendee_count
            /\ 0 <= res.generated[i].available_spots
            /\ res.generated[i].available_spots <= etype.max_attendees

\* The last response was a recomputation, with a non-empty result, of the
\* single-day request that is being repeated
RecomputedNonEmpty ==
    /\ req.start_date = req.end_date
    /\ Computed /\ res.error = "" /\ res.slots # <<>>

\* C38: once an invalidated single-day key has been recomputed with a non-empty
\* result, the following identical request, with no mutation in between and
\* within the expiry time, is a cache hit: a dirty mark forces one
\* recomputation, not one on every later request.
C38_OneRecomputationPerInvalidation ==
    RecomputedNonEmpty =>
        /\ res.engine = "A" => calculate_available_slots(req).response.cache_hit
        /\ res.engine = "B" => AC_get_available_slots(etype, req).response.cache_hit

\* C39: record_api_call increases the stored call count of (provider,
\* organizer) by exactly 1 with a 60-second expiry: after n record_api_call
\* invocations inside one window, in any interleaving of concurrent callers,
\* the stored count is n more than before, so check_rate_limit never admits
\* more than the limit number of calls per window.
C39_CountIsNumberOfCalls ==
    /\ ret.current_count = arg.initial_count + ret.recorded
    /\ ret.timeout = 60
    /\ arg.initial_count + ret.sent
           <= Max(arg.initial_count, IF arg.provider = "google" THEN 100 ELSE 50)

\* The slot interval the loop of the running engine resolved
ResolvedSlotInterval ==
    IF arg.engine = "A" THEN slot_interval_of(etype, cfg.buffer_settings)
    ELSE AC__get_slot_interval(etype)

\* C40: with a resolved slot interval of at least one minute the slot-generation
\* loop terminates for every finite window and every combination of blocks and
\* bookings: each iteration either stops or advances current_slot_start by at
\* least slot_interval, and the loop has ended only if current_slot_start +
\* duration exceeds the window end or the start is past the scheduling horizon.
C40_SlotLoopTerminates ==
    /\ [][ResolvedSlotInterval >= Minutes(1) =>
              \/ ~ret'.running
              \/ ret'.current_slot_start >= ret.current_slot_start + ResolvedSlotInterval]_vars
    /\ (ResolvedSlotInterval >= Minutes(1)) => <>(~ret.running)
    /\ [](~ret.running =>
              \/ ret.current_slot_start + Minutes(etype.duration) > arg.range_end_utc
              \/ ret.current_slot_start > now + Minutes(etype.max_scheduling_horizon))

\* A loop that emitted slots, skipped candidates and then ended
C40_Witness ==
    /\ ~ret.running
    /\ Len(ret.slots) >= 2
    /\ ret.current_slot_start
           > arg.range_start_utc + (Len(ret.slots) + 1) * ResolvedSlotInterval

====
